---------------------------- MODULE Spec2Model ----------------------------
(***************************************************************************)
(* Cabu music quiz: the signaling relay (server/server.js), the host side  *)
(* of the peer connection service (webrtc-simple.service.ts) and the       *)
(* host-authoritative round logic of the game-play component.              *)
(***************************************************************************)
EXTENDS Integers, Sequences, FiniteSets, TLC

(***************************************************************************)
(* Bounds of the model and constants of the program                        *)
(***************************************************************************)
\* number of WebSocket connections the relay sees
NumConns == 5
\* number of distinct room codes generateRoomCode can return in the model
NumCodes == 2
\* number of connections that may leave the OPEN state in one run
MaxClosed == 1
\* number of irregular requests in one run: a create-room or join-room from a
\* connection that is already registered, or a generated code that is in use
MaxOdd == 1
\* number of connections that take part when signaling frames are relayed
NumPeers == 3
\* number of messages the host's message log holds in one run
MaxLog == 2
\* number of guests that take part in a timed game
NumPlaying == 1
\* number of guests whose answers the host collects in an untimed game
NumAnswering == 2
\* number of answer-submitted messages of an untimed game
MaxSends == 3
\* number of questions (rounds) of a game
NumQuestions == 2
\* the time limit of a timed round, in timer ticks
TimeLimit == 1
\* number of answer-submitted messages a guest sends besides its own submits
MaxStray == 1
\* game-play.component.ts:839  "const basePoints = 100"
BasePoints == 100
\* DEFAULT_GAME_SETTINGS.timeLimit, in seconds
DefaultTimeLimit == 30
\* the longest streak a scored answer follows
MaxStreak == 6
\* the longest message log and the most evaluations of an effect
MaxMessages == 4
MaxRuns == 4
\* the most joinGame calls of a guest
MaxJoins == 4
\* the most ICE candidates a browser produces for one connection
MaxCandidates == 1
\* connections that negotiate in one room: a host and two guests
NumNegotiating == 3
\* server.js:290  "if (room.size >= 4)"
MaxPlayers == 4
\* ws readyState values (CONNECTING = 0, OPEN = 1, CLOSING = 2, CLOSED = 3)
WsConnecting == 0
WsOpen == 1
WsClosing == 2
WsClosed == 3

Conns == 1..NumConns
Codes == 1..NumCodes
RelayTypes == {"offer", "answer", "ice-candidate"}
\* the opaque payload a frame of each type carries (sdp or candidate)
PayloadOf(type) ==
  CASE type = "offer" -> "sdp-offer"
    [] type = "answer" -> "sdp-answer"
    [] OTHER -> "candidate"

VARIABLES
  \* ---- signaling relay (server.js) ----
  rooms,        \* Map<roomCode, Set<WebSocket>>
  clients,      \* Map<WebSocket, {roomCode, role}>
  readyState,   \* ws.readyState of every connection
  lastEvent,    \* the event the relay handled last
  lastSent,     \* the frames that handler sent: set of [to, type, ...]
  codesIssued,  \* generateRoomCode has returned the codes 1..codesIssued so far
  nOdd,         \* number of irregular requests handled so far
  \* ---- host side of WebRTCSimpleService ----
  isHost,           \* the isHost signal
  peerConnections,  \* Map<peerId, PeerConnectionInfo>: peer id -> guest
  session,          \* the PeerConnectionInfo created for each guest's offer
  playersList,      \* the roster: array of PlayerInfo
  receivedMessages, \* the message log
  svcOp,            \* the service operation handled last and what it sent
  \* ---- game-play component of the host, and the guests ----
  page,             \* the page the host shows: setup, lobby, game, results
  settings,         \* the settings signal
  comp,             \* the fields of the host's GamePlayComponent
  pendingAnswers,   \* Map<playerId, answer> (host only)
  scores,           \* Map<playerId, PlayerScore>
  roundResults,     \* the results of the round resolved last
  timeouts,         \* the delays of the host's pending setTimeout callbacks
  guestComp,        \* each guest's page and GamePlayComponent fields
  toHost,           \* messages in flight on each guest's channel to the host
  toGuest,          \* messages in flight on the host's channel to each guest
  sentLog,          \* every message the host passed to sendGameMessage, in order
  heard,            \* the answer each player sent last for the open round
  gameOp,           \* the operation the game handled last
  nStray,           \* number of additional answer-submitted messages so far
  \* ---- a component that consumes the message log, and a function call ----
  consumer,         \* the component, the log it reads and what it has handled
  call,             \* the function called last, its arguments and its result
  \* ---- guest side of WebRTCSimpleService ----
  guestService,     \* the fields of the service of one guest and what it has sent
  \* ---- one host and one guest meeting through the relay ----
  random,           \* what Math.random() returns to generateRoomCode, as text
  link,             \* the signaling client of the host and of the guest, and
                    \* the messages in flight on the host's data channel
  \* ---- the slot-based WebRTCService ----
  slotService,      \* its role, its connection slots and the pending createOffer
  \* ---- a host and several guests negotiating through the relay ----
  negotiation       \* each signaling client's role, peer connection and inbox

relayVars == <<rooms, clients, readyState, lastEvent, lastSent, codesIssued, nOdd>>
svcVars == <<isHost, peerConnections, session, playersList, receivedMessages, svcOp>>
gameVars == <<page, settings, comp, pendingAnswers, scores, roundResults, timeouts,
              guestComp, toHost, toGuest, sentLog, heard, gameOp, nStray>>
fxVars == <<consumer, call, guestService, random, link, slotService, negotiation>>
vars == <<relayVars, svcVars, gameVars, fxVars>>

(***************************************************************************)
(* Signaling relay                                                         *)
(***************************************************************************)
NoCode == 0
NoConn == 0

Frame(to, type, roomCode, playerCount, message, from, payload) ==
  [to |-> to, type |-> type, roomCode |-> roomCode, playerCount |-> playerCount,
   message |-> message, from |-> from, payload |-> payload]

Event(type, ws, roomCode, payload) ==
  [type |-> type, ws |-> ws, roomCode |-> roomCode, payload |-> payload]

\* rooms.get(roomCode) is defined
HasRoom(rs, code) == code \in DOMAIN rs

\* rooms.set(code, members)
RoomsSet(rs, code, members) ==
  [c \in (DOMAIN rs) \cup {code} |-> IF c = code THEN members ELSE rs[c]]

\* rooms.delete(code)
RoomsDelete(rs, code) == [c \in (DOMAIN rs) \ {code} |-> rs[c]]

\* clients.set(ws, info)
ClientsSet(cs, ws, info) ==
  [c \in (DOMAIN cs) \cup {ws} |-> IF c = ws THEN info ELSE cs[c]]

\* clients.delete(ws)
ClientsDelete(cs, ws) == [c \in (DOMAIN cs) \ {ws} |-> cs[c]]

\* broadcast(roomCode, message, excludeWs): the connections that get a copy
BroadcastTargets(rs, code, excludeWs) ==
  IF ~HasRoom(rs, code) THEN {}
  ELSE {c \in rs[code] : c # excludeWs /\ readyState[c] = WsOpen}

RoomIsFull_offByOne(room) == Cardinality(room) > MaxPlayers

\* server.js:290  room.size >= 4
RoomIsFull(room) == Cardinality(room) >= MaxPlayers

RelayInit ==
  /\ rooms = [c \in {} |-> {}]
  /\ clients = [c \in {} |-> {}]
  /\ readyState = [c \in Conns |-> WsConnecting]
  /\ lastEvent = Event("none", NoConn, NoCode, "")
  /\ lastSent = {}
  /\ codesIssued = 0
  /\ nOdd = 0

\* Connections and room codes are interchangeable until they first appear, so
\* they appear in the order of their numbers: the next connection to open is the
\* least one not yet opened, and a code not issued before is codesIssued + 1.
NextConn == CHOOSE c \in Conns : readyState[c] = WsConnecting
                                  /\ \A d \in Conns : d < c => readyState[d] # WsConnecting
FreshOrIssued == {code \in Codes : code <= codesIssued + 1}

NClosed == Cardinality({c \in Conns : readyState[c] \in {WsClosing, WsClosed}})

\* the budget of irregular requests
OddBudget(isOdd) ==
  /\ isOdd => nOdd < MaxOdd
  /\ nOdd' = IF isOdd THEN nOdd + 1 ELSE nOdd

\* wss.on('connection')
Connect(limit) ==
  /\ \E c \in Conns : readyState[c] = WsConnecting
  /\ NextConn <= limit
  /\ readyState' = [readyState EXCEPT ![NextConn] = WsOpen]
  /\ lastEvent' = Event("connection", NextConn, NoCode, "")
  /\ lastSent' = {}
  /\ UNCHANGED <<rooms, clients, codesIssued, nOdd>>

\* case 'create-room': generateRoomCode() returns any code (collisions unchecked)
CreateRoom(ws, code) ==
  /\ readyState[ws] = WsOpen
  /\ code \in FreshOrIssued
  /\ OddBudget(ws \in DOMAIN clients \/ HasRoom(rooms, code))
  /\ codesIssued' = IF code > codesIssued THEN code ELSE codesIssued
  /\ rooms' = RoomsSet(rooms, code, {ws})
  /\ clients' = ClientsSet(clients, ws, [roomCode |-> code, role |-> "host"])
  /\ lastSent' = {Frame(ws, "room-created", code, 0, "", "", "")}
  /\ lastEvent' = Event("create-room", ws, code, "")
  /\ UNCHANGED readyState

\* case 'join-room'
JoinRoom(ws, code) ==
  /\ readyState[ws] = WsOpen
  /\ code \in FreshOrIssued
  /\ OddBudget(ws \in DOMAIN clients)
  /\ lastEvent' = Event("join-room", ws, code, "")
  /\ UNCHANGED <<readyState, codesIssued>>
  /\ IF ~HasRoom(rooms, code)
       THEN /\ lastSent' = {Frame(ws, "error", NoCode, 0, "Room not found", "", "")}
            /\ UNCHANGED <<rooms, clients>>
       ELSE IF RoomIsFull(rooms[code])
         THEN /\ lastSent' = {Frame(ws, "error", NoCode, 0, "Room is full", "", "")}
              /\ UNCHANGED <<rooms, clients>>
         ELSE LET joined == RoomsSet(rooms, code, rooms[code] \cup {ws})
                  size == Cardinality(joined[code])
              IN /\ rooms' = joined
                 /\ clients' = ClientsSet(clients, ws, [roomCode |-> code, role |-> "guest"])
                 /\ lastSent' =
                      {Frame(ws, "room-joined", code, size, "", "", "")}
                      \cup {Frame(c, "player-joined", NoCode, size, "", "", "")
                              : c \in BroadcastTargets(joined, code, ws)}

\* case 'offer' / 'answer' / 'ice-candidate'
RelaySignal(ws, type) ==
  /\ readyState[ws] = WsOpen
  /\ lastEvent' = Event(type, ws, NoCode, PayloadOf(type))
  /\ UNCHANGED <<rooms, clients, readyState, codesIssued, nOdd>>
  /\ IF ws \notin DOMAIN clients
       THEN lastSent' = {}
       ELSE lastSent' =
              {Frame(c, type, NoCode, 0, "", clients[ws].role, PayloadOf(type))
                 : c \in BroadcastTargets(rooms, clients[ws].roomCode, ws)}

\* handleClientLeave(ws): the registries afterwards and the frames it sends
LeaveRooms(ws) ==
  IF ws \notin DOMAIN clients \/ ~HasRoom(rooms, clients[ws].roomCode) THEN rooms
  ELSE LET code == clients[ws].roomCode
           left == rooms[code] \ {ws}
       IN IF left = {} THEN RoomsDelete(rooms, code) ELSE RoomsSet(rooms, code, left)

LeaveFrames(ws) ==
  IF ws \notin DOMAIN clients \/ ~HasRoom(rooms, clients[ws].roomCode) THEN {}
  ELSE LET code == clients[ws].roomCode
           left == rooms[code] \ {ws}
       IN {Frame(c, "player-left", NoCode, Cardinality(left), "", "", "")
             : c \in {m \in left : readyState'[m] = WsOpen}}

handleClientLeave(ws) ==
  /\ rooms' = LeaveRooms(ws)
  /\ clients' = ClientsDelete(clients, ws)
  /\ lastSent' = LeaveFrames(ws)

\* case 'leave-room'
LeaveRoom(ws) ==
  /\ readyState[ws] = WsOpen
  /\ UNCHANGED <<readyState, codesIssued, nOdd>>
  /\ lastEvent' = Event("leave-room", ws, NoCode, "")
  /\ handleClientLeave(ws)

\* default: an unknown message type is only logged
UnknownFrame(ws) ==
  /\ readyState[ws] = WsOpen
  /\ lastEvent' = Event("unknown", ws, NoCode, "")
  /\ lastSent' = {}
  /\ UNCHANGED <<rooms, clients, readyState, codesIssued, nOdd>>

BadFrame_silent(ws) ==
  /\ readyState[ws] = WsOpen
  /\ lastEvent' = Event("malformed", ws, NoCode, "")
  /\ lastSent' = {}
  /\ UNCHANGED <<rooms, clients, readyState, codesIssued, nOdd>>

\* catch: JSON.parse or the handler threw
BadFrame(ws) ==
  /\ readyState[ws] = WsOpen
  /\ lastEvent' = Event("malformed", ws, NoCode, "")
  /\ lastSent' = {Frame(ws, "error", NoCode, 0, "Invalid message format", "", "")}
  /\ UNCHANGED <<rooms, clients, readyState, codesIssued, nOdd>>

\* the transport goes down; the 'close' event has not been handled yet
TransportDown(ws) ==
  /\ readyState[ws] = WsOpen
  /\ NClosed < MaxClosed
  /\ readyState' = [readyState EXCEPT ![ws] = WsClosing]
  /\ lastEvent' = Event("transport-down", ws, NoCode, "")
  /\ lastSent' = {}
  /\ UNCHANGED <<rooms, clients, codesIssued, nOdd>>

\* ws.on('close')
OnClose(ws) ==
  /\ readyState[ws] \in {WsOpen, WsClosing}
  /\ readyState[ws] = WsOpen => NClosed < MaxClosed
  /\ readyState' = [readyState EXCEPT ![ws] = WsClosed]
  /\ lastEvent' = Event("close", ws, NoCode, "")
  /\ UNCHANGED <<codesIssued, nOdd>>
  /\ handleClientLeave(ws)

\* setInterval sweep: handleClientLeave for every wss.clients entry not OPEN.
\* handleClientLeave of one connection never touches another's registration, so
\* the sweep is the composition of the single leaves in any order.
RECURSIVE SweepRooms(_, _)
SweepRooms(rs, stale) ==
  IF stale = {} THEN rs
  ELSE LET ws == CHOOSE c \in stale : TRUE
           code == clients[ws].roomCode
           left == rs[code] \ {ws}
           next == IF ~HasRoom(rs, code) THEN rs
                   ELSE IF left = {} THEN RoomsDelete(rs, code)
                   ELSE RoomsSet(rs, code, left)
       IN SweepRooms(next, stale \ {ws})

RECURSIVE SweepFrames(_, _)
SweepFrames(rs, stale) ==
  IF stale = {} THEN {}
  ELSE LET ws == CHOOSE c \in stale : TRUE
           code == clients[ws].roomCode
           left == rs[code] \ {ws}
           next == IF ~HasRoom(rs, code) THEN rs
                   ELSE IF left = {} THEN RoomsDelete(rs, code)
                   ELSE RoomsSet(rs, code, left)
           sent == IF ~HasRoom(rs, code) THEN {}
                   ELSE {Frame(c, "player-left", NoCode, Cardinality(left), "", "", "")
                           : c \in {m \in left : readyState[m] = WsOpen}}
       IN sent \cup SweepFrames(next, stale \ {ws})

Sweep ==
  LET stale == {c \in Conns : readyState[c] = WsClosing /\ c \in DOMAIN clients}
  IN /\ \E c \in Conns : readyState[c] = WsClosing
     /\ rooms' = SweepRooms(rooms, stale)
     /\ clients' = [c \in (DOMAIN clients) \ stale |-> clients[c]]
     /\ lastSent' = SweepFrames(rooms, stale)
     /\ lastEvent' = Event("sweep", NoConn, NoCode, "")
     /\ UNCHANGED <<readyState, codesIssued, nOdd>>

(***************************************************************************)
(* Host side of WebRTCSimpleService (webrtc-simple.service.ts)             *)
(***************************************************************************)
\* a room holds the host and at most MaxPlayers - 1 guests
Guests == 1..(MaxPlayers - 1)
\* joinGame: id: `player-${Date.now()}`, one id per joining guest
PlayerId(g) == <<"player-1", "player-2", "player-3">>[g]
GuestNames == {"Ann", "Bob"}
HostNames == {"Hana"}

\* the relay stamps a guest's signaling frames with the sender's room role
\* (from: clientInfo.role), and join-room registers every joiner as 'guest'
SignalFrom(g) == "guest"

PlayerInfo(id, name, role, connected) ==
  [id |-> id, name |-> name, role |-> role, connected |-> connected]

NoPlayer == PlayerInfo("", "", "", FALSE)

\* what a service operation did: the message it passed to sendGameMessage
\* (msg = "" when it sent none), the guests that message reached and the
\* roster it carried
SvcOp(type, g, player, msg, to, players) ==
  [type |-> type, guest |-> g, player |-> player, msg |-> msg, to |-> to,
   players |-> players]

NoGuest == 0

\* the state of the service after construction
ServiceInit ==
  /\ isHost = FALSE
  /\ peerConnections = [k \in {} |-> NoGuest]
  /\ session = [g \in Guests |->
                  [status |-> "none", dataChannel |-> "null", closed |-> FALSE]]
  /\ playersList = <<>>
  /\ receivedMessages = <<>>
  /\ svcOp = SvcOp("none", NoGuest, NoPlayer, "", {}, <<>>)

\* peerConnections.set(peerId, peerInfo); the value is the guest whose offer
\* created the RTCPeerConnection
PeersSet(pcs, peerId, g) ==
  [k \in (DOMAIN pcs) \cup {peerId} |-> IF k = peerId THEN g ELSE pcs[k]]

\* peerConnections.delete(peerId)
PeersDelete(pcs, peerId) == [k \in (DOMAIN pcs) \ {peerId} |-> pcs[k]]

\* sendGameMessage on the host: every entry of peerConnections whose data
\* channel is open
OpenPeers(pcs, ses) ==
  {g \in Guests : (\E k \in DOMAIN pcs : pcs[k] = g) /\ ses[g].dataChannel = "open"}

\* players.find(p => p.id === id), as the set of matching positions
FindPlayer(players, id) == {i \in 1..Len(players) : players[i].id = id}

\* the updater of addPlayer
addPlayer(players, player) ==
  IF FindPlayer(players, player.id) = {}
    THEN Append(players, [player EXCEPT !.connected = TRUE])
    ELSE LET i == CHOOSE i \in FindPlayer(players, player.id) :
                    \A j \in FindPlayer(players, player.id) : i <= j
             existing == players[i]
         IN IF /\ existing.name = player.name
               /\ existing.connected = TRUE
               /\ existing.role = player.role
              THEN players
              ELSE [j \in 1..Len(players) |->
                      IF players[j].id = player.id
                        THEN [player EXCEPT !.connected = TRUE]
                        ELSE players[j]]

\* addPlayer: "if (wasAdded || this.playersList().length > 1)"
addPlayerBroadcasts(players, player) ==
  \/ FindPlayer(players, player.id) = {}
  \/ Len(addPlayer(players, player)) > 1

\* handlePeerDisconnected: players.map(p => p.id === peerId ? {...p, connected: false} : p)
markDisconnected(players, peerId) ==
  [j \in 1..Len(players) |->
     IF players[j].id = peerId THEN [players[j] EXCEPT !.connected = FALSE]
                               ELSE players[j]]

\* hostGame(playerName)
hostGame(name) ==
  /\ ~isHost
  /\ isHost' = TRUE
  /\ playersList' = <<PlayerInfo("host", name, "host", TRUE)>>
  /\ svcOp' = SvcOp("hostGame", NoGuest, NoPlayer, "", {}, <<>>)
  /\ UNCHANGED <<peerConnections, session, receivedMessages>>

\* the offer of guest g reaches the host through the relay:
\* handleSignalingMessage 'offer', handleOfferFromGuest, createPeerConnectionForGuest
handleOfferFromGuest(g) ==
  /\ isHost
  /\ session[g].status = "none"
  /\ \A h \in Guests : h < g => session[h].status # "none"
  /\ peerConnections' = PeersSet(peerConnections, SignalFrom(g), g)
  /\ session' = [session EXCEPT ![g] =
                   [status |-> "connecting", dataChannel |-> "null", closed |-> FALSE]]
  /\ svcOp' = SvcOp("offer", g, NoPlayer, "", {}, <<>>)
  /\ UNCHANGED <<isHost, playersList, receivedMessages>>

\* peerConnection.ondatachannel of the connection created for guest g, and
\* the channel opening
onDataChannel(g) ==
  /\ session[g].status \in {"connecting", "connected"}
  /\ ~session[g].closed
  /\ session[g].dataChannel = "null"
  /\ session' = [session EXCEPT ![g].dataChannel = "open"]
  /\ svcOp' = SvcOp("datachannel", g, NoPlayer, "", {}, <<>>)
  /\ UNCHANGED <<isHost, peerConnections, playersList, receivedMessages>>

\* handlePeerDisconnected(peerId), applied to the sessions ses
handlePeerDisconnected(peerId, ses) ==
  IF peerId \in DOMAIN peerConnections
    THEN LET m == peerConnections[peerId]
         IN /\ session' = [ses EXCEPT
                             ![m].dataChannel =
                                IF ses[m].dataChannel = "null" THEN "null" ELSE "closed",
                             ![m].closed = TRUE]
            /\ peerConnections' = PeersDelete(peerConnections, peerId)
            /\ playersList' = markDisconnected(playersList, peerId)
    ELSE /\ session' = ses
         /\ UNCHANGED <<peerConnections, playersList>>

ConnectionStates == {"connected", "disconnected", "closed", "failed"}

\* peerConnection.onconnectionstatechange of the connection created for guest
\* g; the handler closes over the peer id the connection was created under
onConnectionStateChange(g, state) ==
  /\ session[g].status \in {"connecting", "connected", "disconnected"}
  /\ ~session[g].closed
  /\ state # session[g].status
  /\ LET ses == [session EXCEPT
                   ![g].status = state,
                   ![g].dataChannel =
                      IF state = "closed" /\ session[g].dataChannel = "open"
                        THEN "closed" ELSE session[g].dataChannel,
                   ![g].closed = (state = "closed")]
     IN IF state \in {"disconnected", "closed"}
          THEN handlePeerDisconnected(SignalFrom(g), ses)
          ELSE /\ session' = ses
               /\ UNCHANGED <<peerConnections, playersList>>
  /\ svcOp' = SvcOp(state, g, NoPlayer, "", {}, <<>>)
  /\ UNCHANGED <<isHost, receivedMessages>>

\* a GameMessage as it is kept in receivedMessages
Message(type, from, data) == [type |-> type, from |-> from, data |-> data]

\* the message sendPlayerJoinedMessage builds on guest g
PlayerJoined(g, name) ==
  Message("player-joined", PlayerId(g), PlayerInfo(PlayerId(g), name, "guest", FALSE))

\* channel.onmessage of guest g's data channel: handleGuestMessage
handleGuestMessage(g, message) ==
  /\ session[g].dataChannel = "open"
  /\ session[g].status \in {"connecting", "connected"}
  /\ IF message.type = "player-joined"
       THEN /\ playersList' = addPlayer(playersList, message.data)
            /\ svcOp' =
                 IF addPlayerBroadcasts(playersList, message.data) /\ isHost
                   THEN SvcOp("player-joined", g, message.data, "player-list-update",
                              OpenPeers(peerConnections, session), playersList')
                   ELSE SvcOp("player-joined", g, message.data, "", {}, <<>>)
       ELSE /\ playersList' = playersList
            /\ svcOp' = SvcOp(message.type, g, NoPlayer, "", {}, <<>>)
  /\ receivedMessages' = Append(receivedMessages, message)
  /\ UNCHANGED <<isHost, peerConnections, session>>

\* sendGameMessage(message) called on the host
sendGameMessage(type) ==
  /\ isHost
  /\ svcOp' = SvcOp("send", NoGuest, NoPlayer, type, OpenPeers(peerConnections, session), <<>>)
  /\ UNCHANGED <<isHost, peerConnections, session, playersList, receivedMessages>>

\* sendToPlayer(playerId, message) called on the host:
\* peerConnections.get(playerId), sent if that entry's data channel is open
sendToPlayer(playerId, type) ==
  /\ isHost
  /\ svcOp' = SvcOp("sendToPlayer", NoGuest, NoPlayer, type,
                    {g \in OpenPeers(peerConnections, session) :
                       playerId \in DOMAIN peerConnections /\ peerConnections[playerId] = g},
                    <<>>)
  /\ UNCHANGED <<isHost, peerConnections, session, playersList, receivedMessages>>

\* a guest's data channel delivers a message while no game is played
GuestMessage(g, message) ==
  /\ Len(receivedMessages) < MaxLog
  /\ handleGuestMessage(g, message)

(***************************************************************************)
(* Game-play component (game-play.component.ts): answers and scoring       *)
(***************************************************************************)
\* a text is a sequence of characters
LowerLetters == {"a", "b", "d", "e", "h", "i", "k", "l", "n", "o", "p", "s", "t", "z"}
UpperLetters == {"B", "K", "L", "O", "T", "Z"}
Chars == LowerLetters \cup UpperLetters \cup {" ", "!", "1", "_"}

\* String.prototype.toLowerCase, character by character
LowerChar(c) ==
  CASE c = "B" -> "b"
    [] c = "K" -> "k"
    [] c = "L" -> "l"
    [] c = "Z" -> "z"
    [] c = "O" -> "o"
    [] c = "T" -> "t"
    [] OTHER -> c

toLowerCase(s) == [i \in 1..Len(s) |-> LowerChar(s[i])]

\* the regular expression classes \s and \w
IsSpace(c) == c = " "
IsWord(c) == c \in LowerLetters \cup UpperLetters \cup {"1", "_"}
IsWordOrSpace(c) == IsWord(c) \/ IsSpace(c)

trim_never(s) == s

\* String.prototype.trim
trim(s) ==
  LET solid == {i \in 1..Len(s) : ~IsSpace(s[i])}
  IN IF solid = {} THEN <<>>
     ELSE SubSeq(s, CHOOSE i \in solid : \A j \in solid : i <= j,
                    CHOOSE i \in solid : \A j \in solid : i >= j)

dropLeadingThe_never(s) == s

\* str.replace(/^the\s+/i, '')
dropLeadingThe(s) ==
  IF Len(s) >= 4 /\ toLowerCase(SubSeq(s, 1, 3)) = <<"t", "h", "e">> /\ IsSpace(s[4])
    THEN LET rest == {i \in 4..Len(s) : ~IsSpace(s[i])}
         IN IF rest = {} THEN <<>>
            ELSE SubSeq(s, CHOOSE i \in rest : \A j \in rest : i <= j, Len(s))
    ELSE s

\* validateAnswer: normalizeAnswer
normalizeAnswer(str) == trim(SelectSeq(dropLeadingThe(toLowerCase(str)), IsWordOrSpace))

\* String.prototype.includes
includes(s, part) ==
  \E i \in 0..(Len(s) - Len(part)) : SubSeq(s, i + 1, i + Len(part)) = part

AnswerModes == {"exact", "fuzzy", "multiple-choice"}

\* validateAnswer(userAnswer, correctAnswer) under the settings' answer mode;
\* mode "" stands for settings being null
validateAnswer(answerMode, userAnswer, correctAnswer) ==
  IF answerMode \notin AnswerModes THEN FALSE
  ELSE IF trim(userAnswer) = <<>> THEN FALSE
  ELSE CASE answerMode = "exact" -> toLowerCase(userAnswer) = toLowerCase(correctAnswer)
         [] answerMode = "fuzzy" ->
              /\ normalizeAnswer(userAnswer) # <<>>
              /\ normalizeAnswer(correctAnswer) # <<>>
              /\ \/ includes(normalizeAnswer(userAnswer), normalizeAnswer(correctAnswer))
                 \/ includes(normalizeAnswer(correctAnswer), normalizeAnswer(userAnswer))
         [] OTHER -> userAnswer = correctAnswer

\* Math.floor of the rational num / den
Round_floor(num, den) == num \div den

\* Math.round of the rational num / den (den > 0, num >= 0)
Round(num, den) == (2 * num + den) \div (2 * den)

\* speedBonus = Math.round((timeRemaining / settings.timeLimit) * 100)
speedBonus(timeLimit, timeRemaining) ==
  IF timeLimit > 0 THEN Round(timeRemaining * 100, timeLimit) ELSE 0

\* streakMultiplier = Math.min(1 + (currentStreak - 1) * 0.5, 3.0), in halves
streakMultiplier2(currentStreak) ==
  IF currentStreak + 1 < 6 THEN currentStreak + 1 ELSE 6

\* totalPoints = Math.round((basePoints + speedBonus) * streakMultiplier * difficultyMultiplier)
\* with the streak multiplier in halves and the difficulty in tenths
totalPoints(bonus, streak2, difficulty10) ==
  Round((BasePoints + bonus) * streak2 * difficulty10, 20)

\* the PlayerScore initializeScores creates
NewScore(playerId) ==
  [playerId |-> playerId, totalScore |-> 0, correctAnswers |-> 0,
   currentStreak |-> 0, maxStreak |-> 0, roundScores |-> <<>>]

\* a QuizQuestion: its id, correct answer and difficulty multiplier in tenths
\* (quiz-generator getDifficultyMultiplier: 1.0, 1.2, 1.5, 2.0)
Question(id, correctAnswer, difficulty) ==
  [id |-> id, correctAnswer |-> correctAnswer, difficulty |-> difficulty]

NoQuestion == Question(0, <<>>, 0)

TextOk == <<"o", "k">>
Difficulties == <<10, 15, 12, 20>>

\* the questions of the game, the same on the host and on every guest that
\* received game-start
Questions ==
  [i \in 1..NumQuestions |->
     Question(i, IF i % 2 = 1 THEN TextOk ELSE <<"T", "h", "e", " ", "o", "k">>, Difficulties[((i - 1) % 4) + 1])]

\* GameSettings: answerMode and timeLimit (0 = no limit)
Settings(answerMode, timeLimit) == [answerMode |-> answerMode, timeLimit |-> timeLimit]

NoSettings == Settings("", 0)

\* what a player can type into the answer field
AnswerTexts == {<<" ", "O", "k">>}

\* what the answer-submitted a guest sends outside the modelled component
\* carries: a different text for each guest
SentText(g) == <<TextOk, <<"n", "o">>, <<"T", "h", "e", " ", "O", "k", "!">>>>[g]

\* results.push: answer || '(no answer)'
NoAnswerText == <<"(no answer)">>

\* the fields of a GamePlayComponent after construction
CompInit ==
  [currentRound |-> 0, currentQuestion |-> NoQuestion, playerAnswer |-> <<>>,
   hasSubmitted |-> FALSE, timeRemaining |-> 0, timerInterval |-> FALSE,
   answersProcessedForRound |-> -1, lastProcessedMessageIndex |-> -1]

\* a guest: the page it is on, whether it holds the game data of game-start,
\* and the fields of its GamePlayComponent
GuestInit ==
  [page |-> "join", hasData |-> FALSE, waitingForPlayers |-> FALSE,
   currentRound |-> 0, currentQuestion |-> NoQuestion, playerAnswer |-> <<>>,
   hasSubmitted |-> FALSE, timeRemaining |-> 0, timerInterval |-> FALSE]

\* a message the host broadcasts over the data channels
GameMsg(type, round, timeLimit) == [type |-> type, round |-> round, timeLimit |-> timeLimit]

\* endGame: the game-end message with finalScores, the host's score records
GameEnd(round, finalScores) ==
  [type |-> "game-end", round |-> round, timeLimit |-> 0, finalScores |-> finalScores]

\* AnswerSubmittedData
AnswerData(playerId, answer) == [playerId |-> playerId, answer |-> answer]

\* the operation the game handled last
GameOp(type, who, answer) == [type |-> type, who |-> who, answer |-> answer]

NoAnswers == [id \in {} |-> <<>>]

GameInit ==
  /\ page = "setup"
  /\ settings = NoSettings
  /\ comp = CompInit
  /\ pendingAnswers = NoAnswers
  /\ scores = [id \in {} |-> NewScore(id)]
  /\ roundResults = <<>>
  /\ timeouts = <<>>
  /\ guestComp = [g \in Guests |-> GuestInit]
  /\ toHost = [g \in Guests |-> <<>>]
  /\ toGuest = [g \in Guests |-> <<>>]
  /\ sentLog = <<>>
  /\ heard = NoAnswers
  /\ gameOp = GameOp("none", NoGuest, <<>>)
  /\ nStray = 0

\* the points calculateScoreForPlayer returns
pointsForPlayer(sc, playerId, isCorrect, question, st, c) ==
  IF playerId \notin DOMAIN sc \/ question = NoQuestion \/ st = NoSettings THEN 0
  ELSE IF isCorrect
    THEN totalPoints(speedBonus(st.timeLimit, c.timeRemaining),
                     streakMultiplier2(sc[playerId].currentStreak + 1),
                     question.difficulty)
    ELSE 0

\* the scores map after calculateScoreForPlayer(playerId, isCorrect, submittedAt)
calculateScoreForPlayer(sc, playerId, isCorrect, question, st, c) ==
  IF playerId \notin DOMAIN sc \/ question = NoQuestion \/ st = NoSettings THEN sc
  ELSE LET old == sc[playerId]
           points == pointsForPlayer(sc, playerId, isCorrect, question, st, c)
           roundScore == [round |-> c.currentRound + 1,
                          answer |-> c.playerAnswer,
                          correct |-> isCorrect,
                          totalPoints |-> points]
       IN [sc EXCEPT ![playerId] =
             IF isCorrect
               THEN [old EXCEPT !.totalScore = old.totalScore + points,
                                !.correctAnswers = old.correctAnswers + 1,
                                !.currentStreak = old.currentStreak + 1,
                                !.maxStreak = IF old.maxStreak >= old.currentStreak + 1
                                               THEN old.maxStreak ELSE old.currentStreak + 1,
                                !.roundScores = Append(old.roundScores, roundScore)]
               ELSE [old EXCEPT !.currentStreak = 0,
                                !.roundScores = Append(old.roundScores, roundScore)]]

\* a data channel delivers: it is open and the connection is up
Delivers(ses, g) ==
  ses[g].dataChannel = "open" /\ ses[g].status \in {"connecting", "connected"}

\* the host's sendGameMessage, for each message of msgs in turn
hostSends(msgs) ==
  /\ toGuest' = [g \in Guests |->
                   IF g \in OpenPeers(peerConnections, session)
                     THEN toGuest[g] \o msgs ELSE toGuest[g]]
  /\ sentLog' = sentLog \o msgs

\* Map.set on pendingAnswers
AnswersSet(pend, key, answer) ==
  [id \in (DOMAIN pend) \cup {key} |-> IF id = key THEN answer ELSE pend[id]]

\* startRound / handleRoundStart: the local state of the new round
roundStarted(c, roundIndex, question, timeLimit) ==
  [c EXCEPT !.currentRound = roundIndex,
            !.currentQuestion = question,
            !.playerAnswer = <<>>,
            !.hasSubmitted = FALSE,
            !.timeRemaining = IF timeLimit > 0 THEN timeLimit ELSE c.timeRemaining,
            !.timerInterval = IF timeLimit > 0 THEN TRUE ELSE c.timerInterval]

\* startRound(roundIndex) on the host whose component fields are c; `before`
\* are the messages the same handler has already sent, `pend` the pending
\* answers once the round has started (`hrd` by sender), `toPage` the page
\* the host is on
startRound(c, roundIndex, timeLimit, before, pend, hrd, toPage) ==
  IF roundIndex >= Len(Questions)
    THEN \* endGame
         /\ hostSends(before \o <<GameEnd(c.currentRound, scores)>>)
         /\ page' = "results"
         /\ comp' = c
         /\ UNCHANGED <<pendingAnswers, heard>>
    ELSE /\ hostSends(before \o <<GameMsg("round-start", roundIndex, timeLimit)>>)
         /\ page' = toPage
         /\ comp' = roundStarted(c, roundIndex, Questions[roundIndex + 1], timeLimit)
         /\ pendingAnswers' = pend
         /\ heard' = hrd

\* handleAnswerSubmitted: the key the answer is stored under
AnswerKey_byArrival(data, pend, players) ==
  players[IF Cardinality(DOMAIN pend) + 2 <= Len(players)
            THEN Cardinality(DOMAIN pend) + 2 ELSE Len(players)].id

AnswerKey(data, pend, players) == data.playerId

\* the answer processAllAnswers takes for a roster player
answerOf(player, c, pend) ==
  IF player.id = "host" THEN c.playerAnswer
  ELSE IF player.id \in DOMAIN pend THEN pend[player.id] ELSE <<>>

\* the scores map after processAllAnswers has scored the first n roster players
RECURSIVE scoresAfter(_, _, _, _, _, _)
scoresAfter(sc, players, c, pend, st, n) ==
  IF n = 0 THEN sc
  ELSE calculateScoreForPlayer(
         scoresAfter(sc, players, c, pend, st, n - 1), players[n].id,
         validateAnswer(st.answerMode, answerOf(players[n], c, pend),
                        c.currentQuestion.correctAnswer),
         c.currentQuestion, st, c)

\* the entry processAllAnswers pushes to results for the n-th roster player
resultFor(sc, players, c, pend, st, n) ==
  LET player == players[n]
      answer == answerOf(player, c, pend)
      isCorrect == validateAnswer(st.answerMode, answer, c.currentQuestion.correctAnswer)
      before == scoresAfter(sc, players, c, pend, st, n - 1)
      after == scoresAfter(sc, players, c, pend, st, n)
  IN [playerId |-> player.id,
      playerName |-> player.name,
      answer |-> IF answer = <<>> THEN NoAnswerText ELSE answer,
      correct |-> isCorrect,
      points |-> pointsForPlayer(before, player.id, isCorrect, c.currentQuestion, st, c),
      totalScore |-> IF player.id \in DOMAIN after THEN after[player.id].totalScore ELSE 0,
      currentStreak |-> IF player.id \in DOMAIN after THEN after[player.id].currentStreak ELSE 0]

\* processAllAnswers on the host whose component fields are c
processAllAnswers(c, pend) ==
  /\ comp' = [c EXCEPT !.answersProcessedForRound = c.currentRound]
  /\ scores' = scoresAfter(scores, playersList, c, pend, settings, Len(playersList))
  /\ roundResults' = [n \in 1..Len(playersList) |->
                        resultFor(scores, playersList, c, pend, settings, n)]
  /\ pendingAnswers' = NoAnswers
  /\ heard' = NoAnswers
  /\ hostSends(<<GameMsg("round-end", c.currentRound, 0),
                 GameMsg("score-update", c.currentRound, 0)>>)
  /\ timeouts' = Append(timeouts, 5000)

\* checkAllAnswersSubmitted: players.every(p => p.id === 'host' ? hasSubmitted : pendingAnswers.has(p.id))
allSubmitted(players, c, pend) ==
  \A i \in 1..Len(players) :
    IF players[i].id = "host" THEN c.hasSubmitted ELSE players[i].id \in DOMAIN pend

\* checkAllAnswersSubmitted on the host whose component fields are c
checkAllAnswersSubmitted(c, pend, hrd) ==
  IF /\ c.answersProcessedForRound # c.currentRound
     /\ allSubmitted(playersList, c, pend)
     /\ Len(playersList) > 1
     /\ c.currentQuestion # NoQuestion
    THEN processAllAnswers(c, pend)
    ELSE /\ comp' = c
         /\ pendingAnswers' = pend
         /\ heard' = hrd
         /\ UNCHANGED <<scores, roundResults, timeouts, toGuest, sentLog>>

\* handleAnswerSubmitted(message) on the host; g is the guest whose channel
\* delivered the message
handleAnswerSubmitted(c, message, g) ==
  checkAllAnswersSubmitted(
    c,
    AnswersSet(pendingAnswers, AnswerKey(message.data, pendingAnswers, playersList),
               message.data.answer),
    AnswersSet(heard, PlayerId(g), message.data.answer))

\* startTimer: "if (!this.hasSubmitted()) this.submitAnswer()"
autoSubmits_never(hasSubmitted) == FALSE

autoSubmits(hasSubmitted) == ~hasSubmitted

\* submitAnswer on the host
submitAnswerHost ==
  LET c == [comp EXCEPT !.hasSubmitted = TRUE, !.timerInterval = FALSE]
      answer == trim(comp.playerAnswer)
  IN IF Len(playersList) = 1
       THEN /\ comp' = c
            /\ scores' = calculateScoreForPlayer(
                           scores, "host",
                           validateAnswer(settings.answerMode, answer,
                                          c.currentQuestion.correctAnswer),
                           c.currentQuestion, settings, c)
            /\ timeouts' = Append(timeouts, 3000)
            /\ UNCHANGED <<pendingAnswers, heard, roundResults, toGuest, sentLog>>
       ELSE checkAllAnswersSubmitted(c, pendingAnswers, heard)

\* submitAnswer on guest g
submitAnswerGuest(g) ==
  /\ guestComp' = [guestComp EXCEPT ![g].hasSubmitted = TRUE,
                                    ![g].timerInterval = FALSE,
                                    ![g].waitingForPlayers = TRUE]
  /\ toHost' = IF session[g].dataChannel = "open"
                 THEN [toHost EXCEPT ![g] =
                         Append(@, Message("answer-submitted", PlayerId(g),
                                           AnswerData(PlayerId(g), trim(guestComp[g].playerAnswer))))]
                 ELSE toHost

\* the constructor's effect on a new host component: every answer-submitted
\* of the first n messages of the log goes through handleAnswerSubmitted
RECURSIVE replayAnswers(_, _, _)
replayAnswers(log, players, n) ==
  IF n = 0 THEN NoAnswers
  ELSE LET pend == replayAnswers(log, players, n - 1)
       IN IF log[n].type = "answer-submitted"
            THEN AnswersSet(pend, AnswerKey(log[n].data, pend, players), log[n].data.answer)
            ELSE pend

\* the answers of the first n messages of the log, by the player that sent them
RECURSIVE replayHeard(_, _)
replayHeard(log, n) ==
  IF n = 0 THEN NoAnswers
  ELSE IF log[n].type = "answer-submitted"
         THEN AnswersSet(replayHeard(log, n - 1), log[n].from, log[n].data.answer)
         ELSE replayHeard(log, n - 1)

\* initializeScores
initializeScores(players) ==
  [id \in {players[i].id : i \in 1..Len(players)} |-> NewScore(id)]

\* the host creates the room and waits in the lobby
HostLobby(name) ==
  /\ hostGame(name)
  /\ page' = "lobby"
  /\ gameOp' = GameOp("hostGame", NoGuest, <<>>)
  /\ UNCHANGED <<settings, comp, pendingAnswers, scores, roundResults, timeouts,
                 guestComp, toHost, toGuest, sentLog, heard, nStray>>

\* the offer of a guest that takes part in the game reaches the host
GuestOffer(g) ==
  /\ handleOfferFromGuest(g)
  /\ gameOp' = GameOp("offer", g, <<>>)
  /\ UNCHANGED <<page, settings, comp, pendingAnswers, scores, roundResults, timeouts,
                 guestComp, toHost, toGuest, sentLog, heard, nStray>>

\* the data channel of guest g opens: ondatachannel on the host, and onopen on
\* the guest, which sends player-joined and shows the lobby
ChannelOpens(g, name) ==
  /\ onDataChannel(g)
  /\ toHost' = [toHost EXCEPT ![g] = Append(@, PlayerJoined(g, name))]
  /\ guestComp' = [guestComp EXCEPT ![g].page = "lobby"]
  /\ gameOp' = GameOp("datachannel", g, <<>>)
  /\ UNCHANGED <<page, settings, comp, pendingAnswers, scores, roundResults, timeouts,
                 toGuest, sentLog, heard, nStray>>

\* lobby startGame (shareGameData, navigate to /game), then ngOnInit of the
\* host's new GamePlayComponent and the first run of its effect
StartGame(st) ==
  /\ isHost
  /\ page = "lobby"
  /\ settings' = st
  /\ scores' = initializeScores(playersList)
  /\ roundResults' = <<>>
  /\ startRound([CompInit EXCEPT !.lastProcessedMessageIndex = Len(receivedMessages) - 1],
                0, st.timeLimit, <<GameMsg("game-start", 0, 0)>>,
                replayAnswers(receivedMessages, playersList, Len(receivedMessages)),
                replayHeard(receivedMessages, Len(receivedMessages)), "game")
  /\ gameOp' = GameOp("startGame", NoGuest, <<>>)
  /\ UNCHANGED <<svcVars, timeouts, guestComp, toHost, nStray>>

\* the host's data channel with guest g delivers the next message:
\* handleGuestMessage, then the effect of the game-play component
HostReceives(g) ==
  /\ toHost[g] # <<>>
  /\ handleGuestMessage(g, Head(toHost[g]))
  /\ toHost' = [toHost EXCEPT ![g] = Tail(@)]
  /\ gameOp' = GameOp(Head(toHost[g]).type, g,
                      IF Head(toHost[g]).type = "answer-submitted"
                        THEN Head(toHost[g]).data.answer ELSE <<>>)
  /\ IF page = "game" /\ Head(toHost[g]).type = "answer-submitted"
       THEN handleAnswerSubmitted(
              [comp EXCEPT !.lastProcessedMessageIndex = Len(receivedMessages)],
              Head(toHost[g]), g)
       ELSE /\ comp' = IF page = "game"
                         THEN [comp EXCEPT !.lastProcessedMessageIndex = Len(receivedMessages)]
                         ELSE comp
            /\ IF svcOp'.msg = ""
                 THEN UNCHANGED <<toGuest, sentLog>>
                 ELSE hostSends(<<GameMsg(svcOp'.msg, 0, 0)>>)
            /\ UNCHANGED <<pendingAnswers, heard, scores, roundResults, timeouts>>
  /\ UNCHANGED <<page, settings, guestComp, nStray>>

\* the host types into the answer field
HostTypes(text) ==
  /\ page = "game"
  /\ ~comp.hasSubmitted
  /\ comp.playerAnswer = <<>>
  /\ comp' = [comp EXCEPT !.playerAnswer = text]
  /\ gameOp' = GameOp("type", NoGuest, text)
  /\ UNCHANGED <<svcVars, page, settings, pendingAnswers, scores, roundResults, timeouts,
                 guestComp, toHost, toGuest, sentLog, heard, nStray>>

\* the host presses submit
HostSubmits ==
  /\ page = "game"
  /\ ~comp.hasSubmitted
  /\ submitAnswerHost
  /\ gameOp' = GameOp("submit", NoGuest, trim(comp.playerAnswer))
  /\ UNCHANGED <<svcVars, page, settings, guestComp, toHost, nStray>>

\* one tick of the host's timer interval (startTimer)
HostTick ==
  /\ page = "game"
  /\ comp.timerInterval
  /\ IF comp.timeRemaining > 0
       THEN /\ comp' = [comp EXCEPT !.timeRemaining = @ - 1]
            /\ gameOp' = GameOp("tick", NoGuest, <<>>)
            /\ UNCHANGED <<pendingAnswers, heard, scores, roundResults, timeouts,
                           toGuest, sentLog>>
       ELSE /\ gameOp' = GameOp("expiry", NoGuest, trim(comp.playerAnswer))
            /\ IF autoSubmits(comp.hasSubmitted)
                 THEN submitAnswerHost
                 ELSE UNCHANGED <<comp, pendingAnswers, heard, scores, roundResults,
                                  timeouts, toGuest, sentLog>>
  /\ UNCHANGED <<svcVars, page, settings, guestComp, toHost, nStray>>

\* "this.startRound(this.currentRound() + 1)"
nextRoundIndex_skip(currentRound) == currentRound + 2

nextRoundIndex(currentRound) == currentRound + 1

\* the oldest pending setTimeout callback of the host fires:
\* startRound(currentRound() + 1)
NextRoundTimeout ==
  /\ timeouts # <<>>
  /\ timeouts' = Tail(timeouts)
  /\ roundResults' = IF Head(timeouts) = 5000 THEN <<>> ELSE roundResults
  /\ startRound(comp, nextRoundIndex(comp.currentRound), settings.timeLimit, <<>>,
                NoAnswers, NoAnswers, page)
  /\ gameOp' = GameOp("timeout", NoGuest, <<>>)
  /\ UNCHANGED <<svcVars, settings, scores, guestComp, toHost, nStray>>

\* questions.find(q => q.id === data.question.id) on a guest
findQuestion(id) ==
  IF \E i \in 1..Len(Questions) : Questions[i].id = id
    THEN Questions[CHOOSE i \in 1..Len(Questions) : Questions[i].id = id]
    ELSE NoQuestion

\* handleRoundStart(data) on a guest whose fields are gc
handleRoundStart(gc, m) ==
  IF findQuestion(m.round + 1) = NoQuestion THEN gc
  ELSE roundStarted(gc, m.round, findQuestion(m.round + 1), m.timeLimit)

\* what the message m of the host does to a guest whose fields are gc: the
\* lobby's effect (game-start, round-start) and handleGameMessage
guestHandles(gc, m) ==
  CASE m.type = "game-start" /\ gc.page = "lobby" -> [gc EXCEPT !.hasData = TRUE]
    [] m.type = "round-start" /\ gc.page = "lobby" ->
         IF gc.hasData THEN handleRoundStart([gc EXCEPT !.page = "game"], m)
                       ELSE [gc EXCEPT !.page = "setup"]
    [] m.type = "round-start" /\ gc.page = "game" -> handleRoundStart(gc, m)
    [] m.type = "round-end" /\ gc.page = "game" ->
         [gc EXCEPT !.waitingForPlayers = FALSE, !.timerInterval = FALSE]
    [] m.type = "game-end" /\ gc.page = "game" ->
         [gc EXCEPT !.page = "results", !.timerInterval = FALSE]
    [] OTHER -> gc

\* the data channel of guest g delivers the host's next message
GuestReceives(g) ==
  /\ toGuest[g] # <<>>
  /\ Delivers(session, g)
  /\ toGuest' = [toGuest EXCEPT ![g] = Tail(@)]
  /\ guestComp' = [guestComp EXCEPT ![g] = guestHandles(@, Head(toGuest[g]))]
  /\ gameOp' = GameOp(Head(toGuest[g]).type, g, <<>>)
  /\ UNCHANGED <<svcVars, page, settings, comp, pendingAnswers, scores, roundResults,
                 timeouts, toHost, sentLog, heard, nStray>>

\* guest g types into the answer field
GuestTypes(g, text) ==
  /\ guestComp[g].page = "game"
  /\ ~guestComp[g].hasSubmitted
  /\ guestComp[g].playerAnswer = <<>>
  /\ guestComp' = [guestComp EXCEPT ![g].playerAnswer = text]
  /\ gameOp' = GameOp("type", g, text)
  /\ UNCHANGED <<svcVars, page, settings, comp, pendingAnswers, scores, roundResults,
                 timeouts, toHost, toGuest, sentLog, heard, nStray>>

\* guest g presses submit
GuestSubmits(g) ==
  /\ guestComp[g].page = "game"
  /\ ~guestComp[g].hasSubmitted
  /\ submitAnswerGuest(g)
  /\ gameOp' = GameOp("submit", g, trim(guestComp[g].playerAnswer))
  /\ UNCHANGED <<svcVars, page, settings, comp, pendingAnswers, scores, roundResults,
                 timeouts, toGuest, sentLog, heard, nStray>>

\* one tick of guest g's timer interval (startTimer)
GuestTick(g) ==
  /\ guestComp[g].page = "game"
  /\ guestComp[g].timerInterval
  /\ IF guestComp[g].timeRemaining > 0
       THEN /\ guestComp' = [guestComp EXCEPT ![g].timeRemaining = @ - 1]
            /\ gameOp' = GameOp("tick", g, <<>>)
            /\ UNCHANGED toHost
       ELSE /\ gameOp' = GameOp("expiry", g, trim(guestComp[g].playerAnswer))
            /\ IF autoSubmits(guestComp[g].hasSubmitted)
                 THEN submitAnswerGuest(g)
                 ELSE UNCHANGED <<guestComp, toHost>>
  /\ UNCHANGED <<svcVars, page, settings, comp, pendingAnswers, scores, roundResults,
                 timeouts, toGuest, sentLog, heard, nStray>>

\* guest g sends an answer-submitted with its own player id, whatever page
\* it is on: a duplicate, an overwrite, or the submit of a guest whose
\* component is not modelled; at most limit of them in one run
GuestSends(g, text, limit) ==
  /\ session[g].dataChannel = "open"
  /\ nStray < limit
  /\ nStray' = nStray + 1
  /\ toHost' = [toHost EXCEPT ![g] =
                  Append(@, Message("answer-submitted", PlayerId(g),
                                    AnswerData(PlayerId(g), text)))]
  /\ gameOp' = GameOp("send", g, text)
  /\ UNCHANGED <<svcVars, page, settings, comp, pendingAnswers, scores, roundResults,
                 timeouts, guestComp, toGuest, sentLog, heard>>

\* the messages in flight on the channels that no longer deliver are lost
cut(queues, ses) == [g \in Guests |-> IF Delivers(ses, g) THEN queues[g] ELSE <<>>]

\* the connection of guest g drops during the game
GuestDisconnects(g) ==
  /\ onConnectionStateChange(g, "disconnected")
  /\ toHost' = cut(toHost, session')
  /\ toGuest' = cut(toGuest, session')
  /\ gameOp' = GameOp("disconnected", g, <<>>)
  /\ UNCHANGED <<page, settings, comp, pendingAnswers, scores, roundResults, timeouts,
                 guestComp, sentLog, heard, nStray>>

(***************************************************************************)
(* Consumers of the message log, and function calls                        *)
(***************************************************************************)
\* the component that reads webrtcService.messages(): its kind, the log, its
\* lastProcessedMessageIndex, the indices it has passed to its handler in
\* order, how often the log has been delivered to its effect, and whether
\* the service holds a room code; seen is the length of the log at the last
\* evaluation of the effect
Consumer(kind, messages, lastProcessedMessageIndex, handled, runs, hasRoom) ==
  [kind |-> kind, messages |-> messages,
   lastProcessedMessageIndex |-> lastProcessedMessageIndex,
   handled |-> handled, runs |-> runs, hasRoom |-> hasRoom,
   seen |-> IF runs = 0 THEN -1 ELSE Len(messages)]

\* a call of function fn with arguments args that returned result
Call(fn, args, result) == [fn |-> fn, args |-> args, result |-> result]

\* "if (this.hasJoinedAsGuest) return": the flag lets the message pass
armed_always(hasJoinedAsGuest) == TRUE

armed(hasJoinedAsGuest) == ~hasJoinedAsGuest

\* the service of a guest after construction: currentPlayer, the state of
\* its data channel, hasJoinedAsGuest, the operation handled last, the
\* messages it has sent to the host since the last disconnect, the number of
\* joinGame calls so far and the number of channels opened since the last
\* disconnect
GuestServiceInit ==
  [currentPlayer |-> NoPlayer, dataChannel |-> "null", hasJoinedAsGuest |-> FALSE,
   op |-> "none", sent |-> <<>>, joins |-> 0, opens |-> 0,
   playersList |-> <<>>, receivedMessages |-> <<>>]

\* a WebSocketSignalingService: the connection it holds, where the hostGame
\* or joinGame call that uses it stands, currentRoomCode, playerCount, the
\* frames the relay has sent to it that it has not handled yet, and the
\* number of ICE candidates its browser has produced
Client(ws, pc, currentRoomCode, playerCount, inbox, candidates) ==
  [ws |-> ws, pc |-> pc, currentRoomCode |-> currentRoomCode,
   playerCount |-> playerCount, inbox |-> inbox, candidates |-> candidates]

\* ConnectionSlot: the status, and the connectionState, the channel's
\* readyState and the iceGatheringState of the slot's RTCPeerConnection
ConnectionSlot(status, connection, dataChannel, gathering) ==
  [status |-> status, connection |-> connection,
   dataChannel |-> dataChannel, gathering |-> gathering]

\* the slots signal starts empty, the role null, and no call is pending
SlotServiceInit ==
  [role |-> "none",
   slots |-> [i \in {} |-> ConnectionSlot("waiting", "none", "none", "new")],
   pending |-> [op |-> "none", slotIndex |-> 0, result |-> "none"]]

\* a signaling client with its WebRTCSimpleService: isHost or guest, whether
\* this.peerConnection is set, the guests the host holds a session for, the
\* relay's frames not yet handled, the descriptions and candidates applied to
\* its connections, and the number of candidates it has sent
Peer(role, peerConnection, sessions, inbox, applied, candidates) ==
  [role |-> role, peerConnection |-> peerConnection, sessions |-> sessions,
   inbox |-> inbox, applied |-> applied, candidates |-> candidates]

FxInit ==
  /\ consumer = Consumer("none", <<>>, -1, <<>>, 0, FALSE)
  /\ call = Call("none", <<>>, FALSE)
  /\ guestService = GuestServiceInit
  /\ random = <<>>
  /\ link = [host |-> Client(NoConn, "idle", NoCode, 0, <<>>, 0),
             guest |-> Client(NoConn, "idle", NoCode, 0, <<>>, 0),
             channel |-> <<>>]
  /\ slotService = SlotServiceInit
  /\ negotiation = [c \in Conns |-> Peer("none", FALSE, {}, <<>>, <<>>, 0)]

\* joinGame(roomCode, playerName): currentPlayer is set, and
\* createPeerConnection replaces the data channel by a new one
joinGame(playerName, maxJoins) ==
  /\ guestService.joins < maxJoins
  /\ guestService' = [guestService EXCEPT
                        !.currentPlayer = PlayerInfo(PlayerId(1), playerName, "guest", FALSE),
                        !.dataChannel = "connecting",
                        !.op = "joinGame",
                        !.joins = @ + 1]

\* sendPlayerJoinedMessage on a guest service gs whose data channel is open
sendPlayerJoinedMessage(gs) ==
  IF armed(gs.hasJoinedAsGuest) /\ gs.currentPlayer # NoPlayer
    THEN [gs EXCEPT !.sent = Append(@, Message("player-joined", gs.currentPlayer.id,
                                               gs.currentPlayer)),
                    !.hasJoinedAsGuest = TRUE]
    ELSE gs

\* dataChannel.onopen: the guest's data channel opens
onopen ==
  /\ guestService.dataChannel = "connecting"
  /\ guestService' = sendPlayerJoinedMessage(
                       [guestService EXCEPT !.dataChannel = "open", !.op = "onopen",
                                            !.opens = @ + 1])

\* dataChannel.onclose: the channel closes without a disconnect
onclose ==
  /\ guestService.dataChannel \in {"connecting", "open"}
  /\ guestService' = [guestService EXCEPT !.dataChannel = "closed", !.op = "onclose"]

\* disconnect() on the guest
disconnect ==
  /\ guestService.op # "none"
  /\ guestService' = [guestService EXCEPT !.dataChannel = "null",
                                          !.hasJoinedAsGuest = FALSE,
                                          !.op = "disconnect",
                                          !.sent = <<>>,
                                          !.opens = 0,
                                          !.playersList = <<>>,
                                          !.receivedMessages = <<>>]


\* the components whose constructor registers an effect on the message log
ConsumerKinds == {"game-play", "game-join", "lobby", "results"}

\* the message at index i of the log (indices from 0, as in the code)
At(messages, i) == messages[i + 1]

\* game-play, first run: the index of the most recent game-start that no
\* game-end follows, less one; -1 if there is none
gamePlayFirstRun(messages) ==
  LET recent == {i \in 0..(Len(messages) - 1) :
                   /\ At(messages, i) = "game-start"
                   /\ \A j \in (i + 1)..(Len(messages) - 1) : At(messages, j) # "game-end"}
  IN IF recent = {} THEN -1
     ELSE (CHOOSE i \in recent : \A j \in recent : j <= i) - 1

\* "Initialize index on first run": lastProcessedMessageIndex before the loop
indexBeforeLoop(c) ==
  IF c.lastProcessedMessageIndex = -1 /\ Len(c.messages) > 0
    THEN CASE c.kind = "game-play" -> gamePlayFirstRun(c.messages)
           [] c.kind = "lobby" /\ c.hasRoom -> Len(c.messages) - 1
           [] OTHER -> -1
    ELSE c.lastProcessedMessageIndex

\* "for (let i = this.lastProcessedMessageIndex + 1; i < messages.length; i++)"
firstNewIndex_fromStart(lastProcessedMessageIndex) == 0

firstNewIndex(lastProcessedMessageIndex) == lastProcessedMessageIndex + 1

\* the index at which the loop that starts at index from ends: the lobby
\* breaks at a round-start, the other loops run to the end of the log
lastLoopIndex(c, from) ==
  LET stops == {i \in from..(Len(c.messages) - 1) : At(c.messages, i) = "round-start"}
  IN IF c.kind = "lobby" /\ stops # {}
       THEN CHOOSE i \in stops : \A j \in stops : i <= j
       ELSE Len(c.messages) - 1

\* a component of the given kind is constructed on a guest; hasRoom: the
\* service holds a room code
Construct(kind, hasRoom) ==
  /\ consumer.kind = "none"
  /\ consumer' = Consumer(kind, consumer.messages, -1, <<>>, 0, hasRoom)
  /\ call' = Call("construct", <<kind>>, hasRoom)
  /\ UNCHANGED <<guestService, random, link, slotService, negotiation>>

\* the data channel delivers a message: receivedMessages.update appends it
Deliver(type, maxLen) ==
  /\ Len(consumer.messages) < maxLen
  /\ consumer' = [consumer EXCEPT !.messages = Append(@, type)]
  /\ call' = Call("deliver", <<type>>, TRUE)
  /\ UNCHANGED <<guestService, random, link, slotService, negotiation>>

\* the effect of the component is evaluated on the log as it is
runEffect(maxRuns) ==
  /\ consumer.kind \in ConsumerKinds
  /\ consumer.runs < maxRuns
  /\ LET before == indexBeforeLoop(consumer)
         from == firstNewIndex(before)
         last == lastLoopIndex(consumer, from)
     IN consumer' = [consumer EXCEPT
                       !.lastProcessedMessageIndex = IF last >= from THEN last ELSE before,
                       !.handled = @ \o [k \in 1..(last - from + 1) |-> from + k - 1],
                       !.runs = @ + 1,
                       !.seen = Len(consumer.messages)]
  /\ call' = Call("effect", <<consumer.kind>>, TRUE)
  /\ UNCHANGED <<guestService, random, link, slotService, negotiation>>


\* broadcastScores: the data of score-update for the host's scores map
ScoreUpdateData(sc) ==
  [id \in DOMAIN sc |->
     [playerId |-> sc[id].playerId, totalScore |-> sc[id].totalScore,
      correctAnswers |-> sc[id].correctAnswers, currentStreak |-> sc[id].currentStreak]]

\* handleScoreUpdate(data) on a guest that holds the scores map held
handleScoreUpdate(held, data) ==
  [id \in {i \in DOMAIN data : i \in DOMAIN held} |->
     [held[id] EXCEPT !.totalScore = data[id].totalScore,
                      !.correctAnswers = data[id].correctAnswers,
                      !.currentStreak = data[id].currentStreak]]

\* the rosters a component can initialise its scores from: the host and any
\* of the first two guests
ScoreRosters ==
  {<<PlayerInfo("host", "Hana", "host", TRUE)>>,
   <<PlayerInfo("host", "Hana", "host", TRUE), PlayerInfo(PlayerId(1), "Ann", "guest", TRUE)>>,
   <<PlayerInfo("host", "Hana", "host", TRUE), PlayerInfo(PlayerId(1), "Ann", "guest", TRUE),
     PlayerInfo(PlayerId(2), "Bob", "guest", TRUE)>>}

\* the host's scores maps: initialised from a roster, each player with no
\* correct answer yet or with one, worth BasePoints
HostScoreMaps ==
  UNION {[DOMAIN initializeScores(roster) -> {0, 1}] : roster \in ScoreRosters}

HostScores(correct) ==
  [id \in DOMAIN correct |->
     [NewScore(id) EXCEPT !.totalScore = correct[id] * BasePoints,
                          !.correctAnswers = correct[id],
                          !.currentStreak = correct[id],
                          !.maxStreak = correct[id]]]

\* ngOnInit on a guest: initializeScores() from the roster the guest holds
GuestInitializesScores(roster) ==
  /\ call.fn = "none"
  /\ call' = Call("initializeScores", <<roster>>, initializeScores(roster))
  /\ UNCHANGED <<consumer, guestService, random, link, slotService, negotiation>>

\* the guest handles the score-update the host broadcast for its scores map
GuestHandlesScoreUpdate(sc) ==
  /\ call.fn \in {"initializeScores", "handleScoreUpdate"}
  /\ call' = Call("handleScoreUpdate", <<call.result, ScoreUpdateData(sc)>>,
                  handleScoreUpdate(call.result, ScoreUpdateData(sc)))
  /\ UNCHANGED <<consumer, guestService, random, link, slotService, negotiation>>

(***************************************************************************)
(* Specifications                                                          *)
(***************************************************************************)
\* the relay has just started and the client services are constructed
Init == RelayInit /\ ServiceInit /\ GameInit /\ FxInit

\* room membership among NumConns connections: create, join, leave, close
MemberNext ==
  \/ Connect(NumConns) /\ UNCHANGED <<svcVars, gameVars, fxVars>>
  \/ \E ws \in Conns, code \in Codes : CreateRoom(ws, code) /\ UNCHANGED <<svcVars, gameVars, fxVars>>
  \/ \E ws \in Conns, code \in Codes : JoinRoom(ws, code) /\ UNCHANGED <<svcVars, gameVars, fxVars>>
  \/ \E ws \in Conns : LeaveRoom(ws) /\ UNCHANGED <<svcVars, gameVars, fxVars>>
  \/ \E ws \in Conns : OnClose(ws) /\ UNCHANGED <<svcVars, gameVars, fxVars>>

SpecRelay == Init /\ [][MemberNext]_vars

\* every frame type, among NumPeers connections
SignalNext ==
  \/ Connect(NumPeers) /\ UNCHANGED <<svcVars, gameVars, fxVars>>
  \/ \E ws \in Conns, code \in Codes : CreateRoom(ws, code) /\ UNCHANGED <<svcVars, gameVars, fxVars>>
  \/ \E ws \in Conns, code \in Codes : JoinRoom(ws, code) /\ UNCHANGED <<svcVars, gameVars, fxVars>>
  \/ \E ws \in Conns, t \in RelayTypes : RelaySignal(ws, t) /\ UNCHANGED <<svcVars, gameVars, fxVars>>
  \/ \E ws \in Conns : LeaveRoom(ws) /\ UNCHANGED <<svcVars, gameVars, fxVars>>
  \/ \E ws \in Conns : UnknownFrame(ws) /\ UNCHANGED <<svcVars, gameVars, fxVars>>
  \/ \E ws \in Conns : BadFrame(ws) /\ UNCHANGED <<svcVars, gameVars, fxVars>>
  \/ \E ws \in Conns : TransportDown(ws) /\ UNCHANGED <<svcVars, gameVars, fxVars>>
  \/ \E ws \in Conns : OnClose(ws) /\ UNCHANGED <<svcVars, gameVars, fxVars>>
  \/ Sweep /\ UNCHANGED <<svcVars, gameVars, fxVars>>

SpecSignal == Init /\ [][SignalNext]_vars

\* the host service: hosting, guests' offers, data channels and roster
HostNext ==
  \/ \E name \in HostNames : hostGame(name) /\ UNCHANGED <<relayVars, gameVars, fxVars>>
  \/ \E g \in Guests : handleOfferFromGuest(g) /\ UNCHANGED <<relayVars, gameVars, fxVars>>
  \/ \E g \in Guests : onDataChannel(g) /\ UNCHANGED <<relayVars, gameVars, fxVars>>
  \/ \E g \in Guests, state \in ConnectionStates : onConnectionStateChange(g, state) /\ UNCHANGED <<relayVars, gameVars, fxVars>>
  \/ \E g \in Guests, name \in GuestNames : GuestMessage(g, PlayerJoined(g, name)) /\ UNCHANGED <<relayVars, gameVars, fxVars>>
  \/ \E g \in Guests : GuestMessage(g, Message("player-left", PlayerId(g), PlayerId(g))) /\ UNCHANGED <<relayVars, gameVars, fxVars>>
  \/ sendGameMessage("game-start") /\ UNCHANGED <<relayVars, gameVars, fxVars>>
  \/ \E playerId \in {"guest", PlayerId(1)} : sendToPlayer(playerId, "game-start") /\ UNCHANGED <<relayVars, gameVars, fxVars>>

SpecHost == Init /\ [][HostNext]_vars

\* a timed game of the host and NumPlaying guests: joining at any time, typing,
\* submitting, timers, data channels and dropped connections
GameGuests == 1..NumPlaying
GameNames == {"Ann"}

GameNext ==
  \/ \E name \in HostNames : HostLobby(name) /\ UNCHANGED <<relayVars, fxVars>>
  \/ \E g \in GameGuests : GuestOffer(g) /\ UNCHANGED <<relayVars, fxVars>>
  \/ \E g \in GameGuests, name \in GameNames : ChannelOpens(g, name) /\ UNCHANGED <<relayVars, fxVars>>
  \/ \E st \in {Settings("exact", TimeLimit)} : StartGame(st) /\ UNCHANGED <<relayVars, fxVars>>
  \/ \E g \in GameGuests : HostReceives(g) /\ UNCHANGED <<relayVars, fxVars>>
  \/ \E text \in AnswerTexts : HostTypes(text) /\ UNCHANGED <<relayVars, fxVars>>
  \/ HostSubmits /\ UNCHANGED <<relayVars, fxVars>>
  \/ HostTick /\ UNCHANGED <<relayVars, fxVars>>
  \/ NextRoundTimeout /\ UNCHANGED <<relayVars, fxVars>>
  \/ \E g \in GameGuests : GuestReceives(g) /\ UNCHANGED <<relayVars, fxVars>>
  \/ \E g \in GameGuests, text \in AnswerTexts : GuestTypes(g, text) /\ UNCHANGED <<relayVars, fxVars>>
  \/ \E g \in GameGuests : GuestSubmits(g) /\ UNCHANGED <<relayVars, fxVars>>
  \/ \E g \in GameGuests : GuestTick(g) /\ UNCHANGED <<relayVars, fxVars>>
  \/ \E g \in GameGuests : GuestSends(g, SentText(g), MaxStray) /\ UNCHANGED <<relayVars, fxVars>>
  \/ \E g \in GameGuests : GuestDisconnects(g) /\ UNCHANGED <<relayVars, fxVars>>

SpecGame == Init /\ [][GameNext]_vars

\* an untimed game of the host and NumAnswering guests that joined in the
\* lobby: the host collects the answers the guests send
AnsweringGuests == 1..NumAnswering

RoundNext ==
  \/ \E name \in HostNames : HostLobby(name) /\ UNCHANGED <<relayVars, fxVars>>
  \/ \E g \in AnsweringGuests : (page = "lobby" /\ GuestOffer(g)) /\ UNCHANGED <<relayVars, fxVars>>
  \/ \E g \in AnsweringGuests, name \in GameNames : (page = "lobby" /\ ChannelOpens(g, name)) /\ UNCHANGED <<relayVars, fxVars>>
  \/ \E st \in {Settings("fuzzy", 0)} : StartGame(st) /\ UNCHANGED <<relayVars, fxVars>>
  \/ \E g \in AnsweringGuests : HostReceives(g) /\ UNCHANGED <<relayVars, fxVars>>
  \/ \E text \in AnswerTexts : HostTypes(text) /\ UNCHANGED <<relayVars, fxVars>>
  \/ HostSubmits /\ UNCHANGED <<relayVars, fxVars>>
  \/ NextRoundTimeout /\ UNCHANGED <<relayVars, fxVars>>
  \/ \E g \in AnsweringGuests : GuestReceives(g) /\ UNCHANGED <<relayVars, fxVars>>
  \/ \E g \in AnsweringGuests : GuestSends(g, SentText(g), MaxSends) /\ UNCHANGED <<relayVars, fxVars>>

SpecRound == Init /\ [][RoundNext]_vars


(***************************************************************************)
(* Claims about the signaling relay                                        *)
(***************************************************************************)
ErrorTo(ws, message) == {Frame(ws, "error", NoCode, 0, message, "", "")}

RoomCapacity == \A code \in DOMAIN rooms : Cardinality(rooms[code]) <= MaxPlayers

FullJoinRefused ==
  [][(/\ lastEvent'.type = "join-room"
      /\ HasRoom(rooms, lastEvent'.roomCode)
      /\ Cardinality(rooms[lastEvent'.roomCode]) >= MaxPlayers)
     => (/\ lastSent' = ErrorTo(lastEvent'.ws, "Room is full")
         /\ rooms' = rooms
         /\ clients' = clients)]_vars

\* C1: after any sequence of create-room, join-room, leave-room and close events
\* every room has at most 4 members, and a join-room for a room that has 4
\* members is answered with the 'Room is full' error to the joiner only and
\* changes neither the room registry nor the client registry.
C1_RoomNeverExceedsFour == []RoomCapacity /\ FullJoinRefused

C1_Witness ==
  /\ lastEvent.type = "join-room"
  /\ lastSent = ErrorTo(lastEvent.ws, "Room is full")
  /\ HasRoom(rooms, lastEvent.roomCode)
  /\ Cardinality(rooms[lastEvent.roomCode]) = MaxPlayers
  /\ lastEvent.ws \notin rooms[lastEvent.roomCode]

\* C2: when the last member of a room leaves (leave-room or close) the room is
\* removed from the registry, and a join-room for a code that has no room is
\* answered with 'Room not found' and creates no room.
C2_LastLeaveDeletesRoom ==
  [][/\ (lastEvent'.type \in {"leave-room", "close"}
          => \A code \in DOMAIN rooms :
               rooms[code] = {lastEvent'.ws} => ~HasRoom(rooms', code))
     /\ (lastEvent'.type = "join-room" /\ ~HasRoom(rooms, lastEvent'.roomCode)
          => /\ lastSent' = ErrorTo(lastEvent'.ws, "Room not found")
             /\ rooms' = rooms)]_vars

\* C3: an offer, answer or ice-candidate frame of a registered connection goes to
\* every other open member of the sender's room, never to the sender and never
\* to a connection of a different room, each copy tagged with the sender's role
\* and carrying the payload unchanged; a frame of a connection that is in no
\* room is dropped.
C3_RelayToRoomOnly ==
  [][lastEvent'.type \in RelayTypes
     => LET ws == lastEvent'.ws
        IN /\ rooms' = rooms /\ clients' = clients
           /\ IF ws \notin DOMAIN clients THEN lastSent' = {}
              ELSE LET code == clients[ws].roomCode
                       members == IF HasRoom(rooms, code) THEN rooms[code] ELSE {}
                   IN /\ {f.to : f \in lastSent'}
                           = {c \in members \ {ws} : readyState[c] = WsOpen}
                      /\ \A f \in lastSent' :
                           /\ f.type = lastEvent'.type
                           /\ f.payload = lastEvent'.payload
                           /\ f.from = clients[ws].role
                           /\ f.to \in DOMAIN clients => clients[f.to].roomCode = code]_vars

\* the guests whose RTCPeerConnection the host still holds in peerConnections
HeldSessions == {peerConnections[k] : k \in DOMAIN peerConnections}

\* C5: after the host has handled the offers of k distinct guests (k <= 3) it
\* holds k distinct peer sessions, one per guest, and a message passed to
\* sendGameMessage reaches every guest whose data channel is open.
C5_SessionPerGuest ==
  /\ (\A g \in Guests : session[g].status \in {"none", "connecting", "connected"})
       => HeldSessions = {g \in Guests : session[g].status # "none"}
  /\ svcOp.type = "send"
       => svcOp.to = {g \in Guests : session[g].dataChannel = "open"}

\* C6: a player-joined whose id, name and role equal a roster entry that is
\* connected leaves the roster as it is and broadcasts no player-list-update;
\* a player-joined for a new id, or one that differs from the entry, updates
\* the roster and broadcasts exactly one player-list-update with the full roster.
C6_NoRedundantRosterBroadcast ==
  [][svcOp'.type = "player-joined" =>
       LET player == svcOp'.player
           known == \E i \in 1..Len(playersList) :
                      /\ playersList[i].id = player.id
                      /\ playersList[i].name = player.name
                      /\ playersList[i].role = player.role
                      /\ playersList[i].connected
       IN IF known
            THEN playersList' = playersList /\ svcOp'.msg = ""
            ELSE /\ svcOp'.msg = "player-list-update"
                 /\ svcOp'.players = playersList'
                 /\ \E i \in 1..Len(playersList') :
                      playersList'[i] = [player EXCEPT !.connected = TRUE]]_vars

\* C7: when the host removes a peer session because the connection of a
\* guest became disconnected or closed, the roster entry of that guest is
\* kept with connected = false, the roster keeps its length and every other
\* entry is unchanged.
C7_DisconnectKeepsRosterEntry ==
  [][(/\ svcOp'.type \in {"disconnected", "closed"}
      /\ peerConnections' # peerConnections
      /\ FindPlayer(playersList, PlayerId(svcOp'.guest)) # {})
     => /\ Len(playersList') = Len(playersList)
        /\ \A i \in 1..Len(playersList) :
             playersList'[i] =
               IF playersList[i].id = PlayerId(svcOp'.guest)
                 THEN [playersList[i] EXCEPT !.connected = FALSE]
                 ELSE playersList[i]]_vars

(***************************************************************************)
(* Claims about the rounds of a game                                       *)
(***************************************************************************)
\* the RoundScore entries of player id for round index r
RoundScoresFor(id, r) ==
  {k \in 1..Len(scores[id].roundScores) : scores[id].roundScores[k].round = r + 1}

\* the round-end broadcasts for round index r
RoundEndsFor(r) ==
  {k \in 1..Len(sentLog) : sentLog[k].type = "round-end" /\ sentLog[k].round = r}

\* C4: the host resolves every round index at most once: at most one
\* round-end is broadcast for it and at most one RoundScore is appended for it
\* to each scored player, whatever answer-submitted messages are handled after
\* the round has been resolved and before the next round starts.
C4_RoundResolvedOnce ==
  \A r \in 0..(NumQuestions - 1) :
    /\ Cardinality(RoundEndsFor(r)) <= 1
    /\ \A id \in DOMAIN scores : Cardinality(RoundScoresFor(id, r)) <= 1

\* the connection of guest g is down
Disconnected(g) == session[g].status \in {"disconnected", "closed"} \/ session[g].closed

\* the roster has an entry for player id
InRoster(players, id) == \E i \in 1..Len(players) : players[i].id = id

\* the host has just submitted, by hand or by its timer, or has just handled
\* an answer-submitted: the steps after which it looks whether the round is
\* complete
HostLooksAtRound ==
  /\ page = "game"
  /\ \/ gameOp'.type \in {"submit", "expiry"} /\ gameOp'.who = NoGuest
     \/ gameOp'.type = "answer-submitted"

\* C8: with a guest of the roster disconnected during a round, the host
\* resolves the round in the step in which it has submitted and every roster
\* player whose connection is up has an answer recorded; it does not wait for
\* the disconnected player.
C8_DisconnectedDoesNotBlock ==
  [][(/\ HostLooksAtRound
      /\ comp'.hasSubmitted
      /\ Len(playersList) > 1
      /\ comp.currentQuestion # NoQuestion
      /\ comp.answersProcessedForRound # comp.currentRound
      /\ \E g \in Guests : InRoster(playersList, PlayerId(g)) /\ Disconnected(g)
      /\ \A g \in Guests :
           (InRoster(playersList, PlayerId(g)) /\ ~Disconnected(g))
             => \/ PlayerId(g) \in DOMAIN pendingAnswers
                \/ gameOp'.type = "answer-submitted" /\ gameOp'.who = g)
       => comp'.answersProcessedForRound = comp.currentRound]_vars

\* the timer of the host, or of guest g, has just reached zero with the local
\* player not having submitted
HostExpires == gameOp'.type = "expiry" /\ gameOp'.who = NoGuest /\ ~comp.hasSubmitted
GuestExpires(g) == gameOp'.type = "expiry" /\ gameOp'.who = g /\ ~guestComp[g].hasSubmitted

\* the answer-submitted a guest's submit sends
SubmittedBy(g) ==
  Message("answer-submitted", PlayerId(g),
          AnswerData(PlayerId(g), trim(guestComp[g].playerAnswer)))

\* one more RoundScore of the host, for the answer its field holds
HostScoredNow ==
  /\ "host" \in DOMAIN scores
  /\ Len(scores'["host"].roundScores) = Len(scores["host"].roundScores) + 1

\* the round has been resolved in this step: round-end has been broadcast
RoundEndedNow ==
  /\ Len(sentLog') = Len(sentLog) + 2
  /\ sentLog'[Len(sentLog) + 1] = GameMsg("round-end", comp.currentRound, 0)

\* C9: when a round timer reaches zero and the local player has not
\* submitted, a submit is made with the trimmed text of the answer field and
\* the round is not cancelled. A guest is marked submitted and sends
\* answer-submitted to the host if its data channel is open. The host is
\* marked submitted; playing alone it scores its answer at once, otherwise the
\* round is evaluated in that step exactly if every other roster player has an
\* answer recorded and the round has not been resolved yet.
C9_ExpirySubmits ==
  [][/\ HostExpires =>
          /\ comp'.hasSubmitted
          /\ comp'.currentRound = comp.currentRound
          /\ gameOp'.answer = trim(comp.playerAnswer)
          /\ IF Len(playersList) = 1
               THEN HostScoredNow /\ sentLog' = sentLog
               ELSE /\ scores' # scores => RoundEndedNow
                    /\ RoundEndedNow <=>
                         /\ comp.answersProcessedForRound # comp.currentRound
                         /\ \A i \in 1..Len(playersList) :
                              playersList[i].id # "host"
                                => playersList[i].id \in DOMAIN pendingAnswers
     /\ \A g \in Guests :
          GuestExpires(g) =>
            /\ guestComp'[g].hasSubmitted
            /\ guestComp'[g].currentRound = guestComp[g].currentRound
            /\ toHost' = IF session[g].dataChannel = "open"
                           THEN [toHost EXCEPT ![g] = Append(@, SubmittedBy(g))]
                           ELSE toHost]_vars

\* a guest's timer has expired and its answer-submitted, with the text it had
\* typed, is on its way to the host
C9_Witness ==
  /\ gameOp.type = "expiry"
  /\ gameOp.who \in Guests
  /\ gameOp.answer # <<>>
  /\ guestComp[gameOp.who].hasSubmitted
  /\ toHost[gameOp.who] # <<>>
  /\ toHost[gameOp.who][Len(toHost[gameOp.who])]
       = Message("answer-submitted", PlayerId(gameOp.who),
                 AnswerData(PlayerId(gameOp.who), gameOp.answer))

\* C9 as stated: on expiry without a submit a guest sends answer-submitted to
\* the host, and on the host the expiry evaluates the scores of the round.
C9_ExpiryEvaluatesRound ==
  [][/\ HostExpires => scores' # scores
     /\ \A g \in Guests :
          GuestExpires(g) => toHost' = [toHost EXCEPT ![g] = Append(@, SubmittedBy(g))]]_vars

\* the answers of the round by the player that sent them, the one the host
\* has just handled included
HeardNow ==
  IF gameOp'.type = "answer-submitted"
    THEN AnswersSet(heard, PlayerId(gameOp'.who), gameOp'.answer)
    ELSE heard

\* the answer the n-th roster player gave in the round
GivenBy(n) ==
  IF playersList[n].id = "host" THEN comp.playerAnswer
  ELSE IF playersList[n].id \in DOMAIN HeardNow THEN HeardNow[playersList[n].id]
  ELSE <<>>

\* C10: the round-end results and the score map the host computes when it
\* resolves a round depend on the answer each player sent, not on the order in
\* which the answer-submitted messages arrived: the entry of every roster
\* player reports and marks the answer sent under that player's id.
C10_AttributedByPlayerId ==
  [][comp'.answersProcessedForRound # comp.answersProcessedForRound =>
       /\ Len(roundResults') = Len(playersList)
       /\ \A n \in 1..Len(playersList) :
            /\ roundResults'[n].playerId = playersList[n].id
            /\ roundResults'[n].answer =
                 IF GivenBy(n) = <<>> THEN NoAnswerText ELSE GivenBy(n)
            /\ roundResults'[n].correct =
                 validateAnswer(settings.answerMode, GivenBy(n),
                                comp.currentQuestion.correctAnswer)
            /\ playersList[n].id \in DOMAIN scores =>
                 /\ (roundResults'[n].points > 0) <=> roundResults'[n].correct
                 /\ roundResults'[n].totalScore = scores'[playersList[n].id].totalScore
                 /\ scores'[playersList[n].id].totalScore
                      = scores[playersList[n].id].totalScore + roundResults'[n].points
       /\ scores' = scoresAfter(scores, playersList, comp, HeardNow, settings,
                                Len(playersList))]_vars

\* a round of the host and two guests resolved by the answer of the guest that
\* joined first, the other guest's answer having arrived before it
C10_Witness ==
  /\ gameOp.type = "answer-submitted"
  /\ gameOp.who = 1
  /\ Len(roundResults) = 3
  /\ roundResults[2].playerId = PlayerId(1)
  /\ roundResults[2].answer = SentText(1)
  /\ roundResults[3].playerId = PlayerId(2)
  /\ roundResults[3].answer = SentText(2)
  /\ roundResults[2].correct # roundResults[3].correct

(***************************************************************************)
(* Scoring of a correct answer                                             *)
(***************************************************************************)
\* the host plays alone and has answered its first prior questions correctly
\* as their timers expired: the scores map it then holds
RECURSIVE ScoresAfterStreak(_, _)
ScoresAfterStreak(prior, st) ==
  IF prior = 0 THEN initializeScores(<<PlayerInfo("host", "Hana", "host", TRUE)>>)
  ELSE calculateScoreForPlayer(
         ScoresAfterStreak(prior - 1, st), "host", TRUE, Question(prior, TextOk, 10), st,
         [CompInit EXCEPT !.currentRound = prior - 1, !.playerAnswer = TextOk,
                          !.currentQuestion = Question(prior, TextOk, 10)])

\* a solo host at the start of the round after a streak of prior correct
\* answers, with the answer field filled in
ScoreInit ==
  /\ RelayInit
  /\ isHost = TRUE
  /\ peerConnections = [k \in {} |-> NoGuest]
  /\ session = [g \in Guests |->
                  [status |-> "none", dataChannel |-> "null", closed |-> FALSE]]
  /\ playersList = <<PlayerInfo("host", "Hana", "host", TRUE)>>
  /\ receivedMessages = <<>>
  /\ svcOp = SvcOp("hostGame", NoGuest, NoPlayer, "", {}, <<>>)
  /\ page = "game"
  /\ settings \in {Settings("exact", 0), Settings("exact", DefaultTimeLimit)}
  /\ \E prior \in 0..MaxStreak, d \in {Difficulties[i] : i \in 1..Len(Difficulties)},
        text \in {TextOk, <<"n", "o">>} :
       /\ comp = [roundStarted(CompInit, prior, Question(prior + 1, TextOk, d),
                               settings.timeLimit)
                    EXCEPT !.playerAnswer = text]
       /\ scores = ScoresAfterStreak(prior, settings)
  /\ pendingAnswers = NoAnswers
  /\ roundResults = <<>>
  /\ timeouts = <<>>
  /\ guestComp = [g \in Guests |-> GuestInit]
  /\ toHost = [g \in Guests |-> <<>>]
  /\ toGuest = [g \in Guests |-> <<>>]
  /\ sentLog = <<>>
  /\ heard = NoAnswers
  /\ gameOp = GameOp("round-start", NoGuest, <<>>)
  /\ nStray = 0
  /\ FxInit

\* the timer runs and the host submits, or the expiry submits for it
ScoreNext ==
  \/ HostTick /\ UNCHANGED <<relayVars, fxVars>>
  \/ HostSubmits /\ UNCHANGED <<relayVars, fxVars>>

SpecScore == ScoreInit /\ [][ScoreNext]_vars

\* b is the rational num / den rounded to the nearest integer, halves up
IsRounded(b, num, den) == 2 * den * b <= 2 * num + den /\ 2 * num + den < 2 * den * (b + 1)

\* the RoundScore the host has just appended for itself
LastRoundScore == scores'["host"].roundScores[Len(scores'["host"].roundScores)]

\* C11: for a correct answer the host awards
\* round((100 + speedBonus) * streakMultiplier * difficulty) points, with
\* speedBonus = round(timeRemaining / timeLimit * 100) under a time limit and
\* 0 without, newStreak = priorStreak + 1 and
\* streakMultiplier = min(1 + (newStreak - 1) * 0.5, 3.0); for priorStreak 2,
\* timeLimit 30, timeRemaining 15 and difficulty 1.5 that is newStreak 3,
\* speedBonus 50, multiplier 2.0 and 450 points.
C11_PointsOfCorrectAnswer ==
  [][(scores' # scores /\ LastRoundScore.correct) =>
       LET prior == scores["host"].currentStreak
           newStreak == scores'["host"].currentStreak
           points == LastRoundScore.totalPoints
           twiceMultiplier == IF 2 + (newStreak - 1) < 6 THEN 2 + (newStreak - 1) ELSE 6
           tenfoldDifficulty == comp.currentQuestion.difficulty
       IN /\ newStreak = prior + 1
          /\ \E bonus \in 0..100 :
               /\ IF settings.timeLimit > 0
                    THEN IsRounded(bonus, comp.timeRemaining * 100, settings.timeLimit)
                    ELSE bonus = 0
               /\ IsRounded(points, (100 + bonus) * twiceMultiplier * tenfoldDifficulty, 20)
          /\ scores'["host"].totalScore = scores["host"].totalScore + points
          /\ (prior = 2 /\ settings.timeLimit = 30 /\ comp.timeRemaining = 15
                /\ tenfoldDifficulty = 15)
               => /\ newStreak = 3
                  /\ speedBonus(30, 15) = 50
                  /\ streakMultiplier2(newStreak) = 4
                  /\ points = 450]_vars

\* the host has scored a correct answer given with 15 of 30 seconds left on a
\* question of difficulty 1.5 after two correct answers in a row
C11_Witness ==
  /\ gameOp.type = "submit"
  /\ settings.timeLimit = 30
  /\ comp.timeRemaining = 15
  /\ comp.currentQuestion.difficulty = 15
  /\ scores["host"].currentStreak = 3
  /\ Len(scores["host"].roundScores) = 3
  /\ scores["host"].roundScores[3].correct
  /\ scores["host"].roundScores[3].totalPoints = 450

(***************************************************************************)
(* The effects that consume the message log                                *)
(***************************************************************************)
\* a component is constructed at any time, messages arrive, and its effect
\* is evaluated any number of times on the same or on a grown log
EffectNext ==
  \/ \E kind \in ConsumerKinds, hasRoom \in BOOLEAN : Construct(kind, hasRoom) /\ UNCHANGED <<relayVars, svcVars, gameVars>>
  \/ \E type \in {"game-start", "round-start", "game-end"} : Deliver(type, MaxMessages) /\ UNCHANGED <<relayVars, svcVars, gameVars>>
  \/ runEffect(MaxRuns) /\ UNCHANGED <<relayVars, svcVars, gameVars>>

SpecEffects == Init /\ [][EffectNext]_vars

\* the handled indices are indices of the log, each at most once, in
\* increasing order
HandledInOrder ==
  /\ \A k \in 1..Len(consumer.handled) :
       consumer.handled[k] \in 0..(Len(consumer.messages) - 1)
  /\ \A k \in 1..(Len(consumer.handled) - 1) : consumer.handled[k] < consumer.handled[k + 1]
  /\ \A k \in 1..Len(consumer.handled) :
       consumer.handled[k] <= consumer.lastProcessedMessageIndex

\* the effect has been evaluated on an unchanged log
SameLogAgain == call'.fn = "effect" /\ consumer.seen = Len(consumer.messages)

SentOfType(type) == {k \in 1..Len(sentLog) : sentLog[k].type = type}

\* C13: the host broadcasts game-end at most once per game, and only when
\* the round of every question has been resolved; its finalScores are the
\* host's score records, and no round-start follows it.
C13_GameEndOnce ==
  /\ Cardinality(SentOfType("game-end")) <= 1
  /\ \A k \in SentOfType("game-end") :
       /\ sentLog[k].finalScores = scores
       /\ \A r \in 0..(NumQuestions - 1) : RoundScoresFor("host", r) # {}
       /\ \A j \in SentOfType("round-start") : j < k

\* a message of the round lifecycle
IsRoundMessage(m) == m.type \in {"round-start", "round-end", "score-update", "game-end"}

\* the round lifecycle messages the host has broadcast, in order
RoundMessages == SelectSeq(sentLog, IsRoundMessage)

\* the game was started with more than one player in the roster
MultiplayerGame == Cardinality(DOMAIN scores) > 1

ScoreUpdateNext ==
  \/ \E roster \in ScoreRosters : GuestInitializesScores(roster) /\ UNCHANGED <<relayVars, svcVars, gameVars>>
  \/ \E correct \in HostScoreMaps : GuestHandlesScoreUpdate(HostScores(correct)) /\ UNCHANGED <<relayVars, svcVars, gameVars>>

SpecScoreUpdate == Init /\ [][ScoreUpdateNext]_vars

\* C15: handling a score-update, a guest adds no entry for a player it does
\* not hold, and in every entry it holds only totalScore, correctAnswers and
\* currentStreak change: the entry stays, with its playerId, maxStreak and
\* roundScores.
C15_ScoreUpdateMergesThreeFields ==
  call.fn = "handleScoreUpdate" =>
    LET held == call.args[1]
        after == call.result
    IN /\ DOMAIN after \subseteq DOMAIN held
       /\ \A id \in DOMAIN held :
            /\ id \in DOMAIN after
            /\ after[id].playerId = held[id].playerId
            /\ after[id].maxStreak = held[id].maxStreak
            /\ after[id].roundScores = held[id].roundScores

(***************************************************************************)
(* The guest's player-joined message                                       *)
(***************************************************************************)
\* a guest joins, its channel opens or closes, it joins again or disconnects
GuestNext ==
  \/ \E name \in GuestNames : joinGame(name, MaxJoins) /\ UNCHANGED <<relayVars, svcVars, gameVars, consumer, call, random, link, slotService, negotiation>>
  \/ onopen /\ UNCHANGED <<relayVars, svcVars, gameVars, consumer, call, random, link, slotService, negotiation>>
  \/ onclose /\ UNCHANGED <<relayVars, svcVars, gameVars, consumer, call, random, link, slotService, negotiation>>
  \/ disconnect /\ UNCHANGED <<relayVars, svcVars, gameVars, consumer, call, random, link, slotService, negotiation>>

SpecGuest == Init /\ [][GuestNext]_vars

\* the player-joined messages the guest has sent since the last disconnect
JoinedSent(gs) == {k \in 1..Len(gs.sent) : gs.sent[k].type = "player-joined"}

toUpperCase(s) ==
  [i \in 1..Len(s) |-> CASE s[i] = "i" -> "I"
                         [] s[i] = "k" -> "K"
                         [] s[i] = "o" -> "O"
                         [] s[i] = "t" -> "T"
                         [] OTHER -> s[i]]

\* String.prototype.substring(start, end) for 0 <= start <= end
substring(s, start, end) == SubSeq(s, start + 1, IF end < Len(s) THEN end ELSE Len(s))

\* generateRoomCode(): Math.random().toString(36).substring(2, 8).toUpperCase()
generateRoomCode(r) == toUpperCase(substring(r, 2, 8))

\* ws.onmessage of both clients: the frames the relay sent in this step reach
\* their inboxes (a handler sends at most one frame to a connection)
Delivered(l, sent) ==
  LET FramesTo(ws) ==
        IF \E f \in sent : f.to = ws THEN <<CHOOSE f \in sent : f.to = ws>> ELSE <<>>
  IN [l EXCEPT !.host.inbox = @ \o FramesTo(l.host.ws),
               !.guest.inbox = @ \o FramesTo(l.guest.ws)]

\* hostGame(playerName) up to "await this.signalingService.connect()"
HostStarts(name) ==
  /\ link.host.pc = "idle"
  /\ hostGame(name)
  /\ link' = [link EXCEPT !.host.pc = "connect"]
  /\ UNCHANGED <<relayVars, gameVars, consumer, call, guestService, random, slotService, negotiation>>

\* connect() of the host: the relay accepts the connection, ws.onopen resolves
HostConnects ==
  /\ link.host.pc = "connect"
  /\ Connect(2)
  /\ link' = [link EXCEPT !.host.ws = NextConn, !.host.pc = "createRoom"]
  /\ UNCHANGED <<svcVars, gameVars, consumer, call, guestService, random, slotService, negotiation>>

\* createRoom(): the relay handles the host's create-room frame. Math.random()
\* returns any value of [0, 1); toString(36) is modelled for 0, for 0.5
\* (18/36) and for a value with eight digits of radix 36
HostCreatesRoom ==
  /\ link.host.pc = "createRoom"
  /\ \E code \in Codes : CreateRoom(link.host.ws, code)
  /\ random' \in {<<"0">>, <<"0", ".", "i">>,
                 <<"0", ".", "k", "t", "o", "1", "i", "o", "t", "1">>}
  /\ link' = Delivered([link EXCEPT !.host.pc = "awaitCreated"], lastSent')
  /\ UNCHANGED <<svcVars, gameVars, consumer, call, guestService, slotService, negotiation>>

\* handleMessage of a signaling client: playerCount follows player-joined and
\* player-left frames
handleMessage(client, frame) ==
  [client EXCEPT !.inbox = Tail(@),
                 !.playerCount = IF frame.type \in {"player-joined", "player-left"}
                                   THEN frame.playerCount ELSE @]

\* the host handles the next frame of the relay: createRoom's messageHandler
\* for room-created, handleSignalingMessage for an offer (handleOfferFromGuest,
\* whose answer the relay handles in the same step) and for an ICE candidate
HostFrame ==
  /\ link.host.inbox # <<>>
  /\ LET frame == Head(link.host.inbox)
         handled == [link EXCEPT !.host = handleMessage(@, frame)]
     IN CASE frame.type = "room-created" /\ link.host.pc = "awaitCreated" ->
               /\ link' = [handled EXCEPT !.host.currentRoomCode = frame.roomCode,
                                          !.host.playerCount = 1,
                                          !.host.pc = "hosting"]
               /\ UNCHANGED <<relayVars, svcVars>>
          [] frame.type = "offer" /\ isHost ->
               /\ handleOfferFromGuest(1)
               /\ RelaySignal(link.host.ws, "answer")
               /\ link' = Delivered(handled, lastSent')
          [] OTHER ->
               /\ link' = handled
               /\ UNCHANGED <<relayVars, svcVars>>
  /\ UNCHANGED <<gameVars, consumer, call, guestService, random, slotService, negotiation>>

\* joinGame(roomCode, playerName) with the code the host shows, up to
\* connect(): the relay accepts the guest's connection
GuestConnects ==
  /\ link.guest.pc = "idle"
  /\ link.host.currentRoomCode # NoCode
  /\ Connect(2)
  /\ link' = [link EXCEPT !.guest.ws = NextConn, !.guest.pc = "joinRoom"]
  /\ UNCHANGED <<svcVars, gameVars, consumer, call, guestService, random, slotService, negotiation>>

\* joinRoom(roomCode): the relay handles the guest's join-room frame
GuestJoinsRoom ==
  /\ link.guest.pc = "joinRoom"
  /\ JoinRoom(link.guest.ws, link.host.currentRoomCode)
  /\ link' = Delivered([link EXCEPT !.guest.pc = "awaitJoined"], lastSent')
  /\ UNCHANGED <<svcVars, gameVars, consumer, call, guestService, random, slotService, negotiation>>

\* the guest handles the next frame of the relay: joinRoom's messageHandler
\* for room-joined, after which joinGame creates the peer connection and sends
\* the offer (the relay handles it in the same step); handleAnswer for the
\* host's answer; handleIceCandidate
GuestFrame(name) ==
  /\ link.guest.inbox # <<>>
  /\ LET frame == Head(link.guest.inbox)
         handled == [link EXCEPT !.guest = handleMessage(@, frame)]
     IN CASE frame.type = "room-joined" /\ link.guest.pc = "awaitJoined" ->
               /\ joinGame(name, 1)
               /\ RelaySignal(link.guest.ws, "offer")
               /\ link' = Delivered([handled EXCEPT
                                       !.guest.currentRoomCode = link.host.currentRoomCode,
                                       !.guest.playerCount = frame.playerCount,
                                       !.guest.pc = "offered"], lastSent')
          [] frame.type = "answer" /\ link.guest.pc = "offered" ->
               /\ link' = [handled EXCEPT !.guest.pc = "answered"]
               /\ UNCHANGED <<relayVars, guestService>>
          [] OTHER ->
               /\ link' = handled
               /\ UNCHANGED <<relayVars, guestService>>
  /\ UNCHANGED <<svcVars, gameVars, consumer, call, random, slotService, negotiation>>

\* peerConnection.onicecandidate on the host: sendIceCandidate, relayed
HostCandidate(maxCandidates) ==
  /\ session[1].status # "none"
  /\ link.host.candidates < maxCandidates
  /\ RelaySignal(link.host.ws, "ice-candidate")
  /\ link' = Delivered([link EXCEPT !.host.candidates = @ + 1], lastSent')
  /\ UNCHANGED <<svcVars, gameVars, consumer, call, guestService, random, slotService, negotiation>>

\* peerConnection.onicecandidate on the guest: sendIceCandidate, relayed
GuestCandidate(maxCandidates) ==
  /\ link.guest.pc \in {"offered", "answered"}
  /\ link.guest.candidates < maxCandidates
  /\ RelaySignal(link.guest.ws, "ice-candidate")
  /\ link' = Delivered([link EXCEPT !.guest.candidates = @ + 1], lastSent')
  /\ UNCHANGED <<svcVars, gameVars, consumer, call, guestService, random, slotService, negotiation>>

\* the host's data channel delivers the guest's next message: handleGuestMessage,
\* and the roster it broadcasts goes out on the open channel
HostMessage ==
  /\ Len(receivedMessages) < Len(guestService.sent)
  /\ handleGuestMessage(1, guestService.sent[Len(receivedMessages) + 1])
  /\ link' = [link EXCEPT !.channel =
                IF svcOp'.msg # "" /\ 1 \in svcOp'.to
                  THEN Append(@, Message(svcOp'.msg, "host", svcOp'.players))
                  ELSE @]
  /\ UNCHANGED <<relayVars, gameVars, consumer, call, guestService, random, slotService, negotiation>>

\* dataChannel.onmessage on the guest
onmessage ==
  /\ link.channel # <<>>
  /\ guestService.dataChannel = "open"
  /\ LET message == Head(link.channel)
     IN guestService' =
          [guestService EXCEPT
             !.playersList = IF message.type = "player-list-update"
                               THEN message.data ELSE @,
             !.receivedMessages = Append(@, message),
             !.op = "onmessage"]
  /\ link' = [link EXCEPT !.channel = Tail(@)]
  /\ UNCHANGED <<relayVars, svcVars, gameVars, consumer, call, random, slotService, negotiation>>

\* once the guest has set the host's answer (pc = "answered") both
\* descriptions are set: the host's connection reports the data channel and
\* 'connected', and the guest's data channel opens
HandshakeNext ==
  \/ \E name \in HostNames : HostStarts(name)
  \/ HostConnects
  \/ HostCreatesRoom
  \/ HostFrame
  \/ GuestConnects
  \/ GuestJoinsRoom
  \/ \E name \in GuestNames : GuestFrame(name)
  \/ HostCandidate(MaxCandidates)
  \/ GuestCandidate(MaxCandidates)
  \/ link.guest.pc = "answered" /\ onDataChannel(1) /\ UNCHANGED <<relayVars, gameVars, fxVars>>
  \/ link.guest.pc = "answered" /\ onConnectionStateChange(1, "connected") /\ UNCHANGED <<relayVars, gameVars, fxVars>>
  \/ link.guest.pc = "answered" /\ onopen /\ UNCHANGED <<relayVars, svcVars, gameVars, consumer, call, random, link, slotService, negotiation>>
  \/ HostMessage
  \/ onmessage

\* every frame and message in flight is handled in the end: the event loops of
\* both browsers and of the relay keep running
SpecHandshake == Init /\ [][HandshakeNext]_vars /\ WF_vars(HandshakeNext)


\* the code of the room-created frame has six characters
SixCharacterCode == random # <<>> => Len(generateRoomCode(random)) = 6

\* the frames the relay sends for create-room, for the guest's join-room, for
\* the guest's offer and for the host's answer
HandshakeFrames ==
  /\ link.host.pc = "createRoom" /\ link'.host.pc = "awaitCreated" =>
       \E code \in Codes :
         lastSent' = {Frame(link.host.ws, "room-created", code, 0, "", "", "")}
  /\ link.guest.pc = "joinRoom" /\ link'.guest.pc = "awaitJoined" =>
       lastSent' = {Frame(link.guest.ws, "room-joined", link.host.currentRoomCode, 2, "", "", ""),
                    Frame(link.host.ws, "player-joined", NoCode, 2, "", "", "")}
  /\ link.guest.pc = "awaitJoined" /\ link'.guest.pc = "offered" =>
       /\ lastSent' = {Frame(link.host.ws, "offer", NoCode, 0, "", "guest", PayloadOf("offer"))}
       /\ \E i \in 1..Len(link'.host.inbox) :
            link'.host.inbox[i].type = "offer" /\ link'.host.inbox[i].from = "guest"
  /\ session[1].status = "none" /\ session'[1].status # "none" =>
       /\ lastSent' = {Frame(link.guest.ws, "answer", NoCode, 0, "", "host", PayloadOf("answer"))}
       /\ \E i \in 1..Len(link'.guest.inbox) :
            link'.guest.inbox[i].type = "answer" /\ link'.guest.inbox[i].from = "host"

\* the roster of the host, and the one the guest received, hold exactly the
\* host and one guest, both connected
RosterComplete ==
  /\ Len(playersList) = 2
  /\ playersList[1].role = "host" /\ playersList[1].connected
  /\ playersList[2].role = "guest" /\ playersList[2].connected
  /\ playersList[2] = [guestService.currentPlayer EXCEPT !.connected = TRUE]
  /\ guestService.playersList = playersList

\* C17: in a run of one host and one guest without failure, create-room is
\* answered by room-created with a code of six characters, the guest's
\* join-room by room-joined (playerCount 2) to the guest and player-joined
\* (playerCount 2) to the host, the offer reaches the host from 'guest' and
\* the answer reaches the guest from 'host', and in the end the host's roster
\* and the roster the guest received hold the host and one connected guest
C17_EndToEnd ==
  /\ []SixCharacterCode
  /\ [][HandshakeFrames]_vars
  /\ <>[]RosterComplete

\* the frames and the final roster alone, whatever the length of the code
HandshakeCompletes == [][HandshakeFrames]_vars /\ <>[]RosterComplete


(***************************************************************************)
(* Departures from a room                                                  *)
(***************************************************************************)
\* the connections whose leave the relay handles in this step: the sender of
\* leave-room, the connection that closed, or every stale connection the
\* sweep finds
Departing ==
  IF lastEvent'.type \in {"leave-room", "close"} THEN {lastEvent'.ws}
  ELSE IF lastEvent'.type = "sweep" THEN {c \in Conns : readyState[c] = WsClosing}
  ELSE {}

\* C18: whenever the relay handles the leave of a connection (leave-room, close
\* or sweep), the connection is removed from every room it is a member of and
\* every remaining open member of that room is sent exactly one player-left
\* frame, whose playerCount is the number of remaining members; the leave of
\* a connection that has left before changes nothing and sends nothing
C18_DepartureNotifies ==
  [][\A ws \in Departing :
       /\ \A code \in DOMAIN rooms :
            ws \in rooms[code] =>
              /\ ~(code \in DOMAIN rooms' /\ ws \in rooms'[code])
              /\ \A m \in rooms[code] \ {ws} :
                   readyState'[m] = WsOpen =>
                     {f \in lastSent' : f.to = m} =
                       {Frame(m, "player-left", NoCode,
                              Cardinality(rooms[code] \ {ws}), "", "", "")}
       /\ ws \notin DOMAIN clients =>
            rooms' = rooms /\ clients' = clients /\ lastSent' = {}]_vars


(***************************************************************************)
(* validateAnswer as a function of its inputs                              *)
(***************************************************************************)
\* the answers and correct answers validateAnswer is called with
ValidateTexts ==
  {<<>>, <<" ">>, <<"!">>, <<"t", "h", "e", " ">>, <<"k", "k">>, <<"k", "!", "K">>,
   <<"T", "h", "e", " ", " ", "k">>, <<" ", "t", "h", "e", " ", "k">>,
        <<"T", "h", "e", " ", "B", "e", "a", "t", "l", "e", "s">>,
        <<"B", "e", "a", "t", "l", "e", "s">>,
        <<"b", "e", "a", "t", "l", "e", "s", "!", "!">>,
        <<"L", "e", "d", " ", "Z", "e", "p", "p", "e", "l", "i", "n">>}

\* ngOnInit of a component that is not the host's: it loads the settings of
\* the game from sessionStorage, initializes the scores from the roster and
\* waits for round-start
ngOnInit(st) ==
  /\ ~isHost
  /\ settings' = st
  /\ scores' = initializeScores(playersList)
  /\ UNCHANGED <<relayVars, svcVars, fxVars, page, comp, pendingAnswers,
                 roundResults, timeouts, guestComp, toHost, toGuest, sentLog, heard,
                 gameOp, nStray>>

\* a call validateAnswer(userAnswer, correctAnswer): it reads the settings
\* signal and assigns nothing
Validate(userAnswer, correctAnswer) ==
  /\ call' = Call("validateAnswer", <<settings.answerMode, userAnswer, correctAnswer>>,
                  validateAnswer(settings.answerMode, userAnswer, correctAnswer))
  /\ UNCHANGED <<relayVars, svcVars, gameVars, consumer, guestService, random, link, slotService, negotiation>>

ValidateNext ==
  \/ \E st \in {NoSettings, Settings("fuzzy", DefaultTimeLimit)}
               \cup {Settings(mode, 0) : mode \in AnswerModes} : ngOnInit(st)
  \/ \E userAnswer \in ValidateTexts, correctAnswer \in ValidateTexts :
       Validate(userAnswer, correctAnswer)

SpecValidate == Init /\ [][ValidateNext]_vars

\* the claim's normal form of a text: lower case, without one leading "the ",
\* without the characters that are neither word characters nor blanks, and
\* without the blanks at both ends
RECURSIVE Stripped(_)
Stripped(s) ==
  IF s # <<>> /\ Head(s) = " " THEN Stripped(Tail(s))
  ELSE IF s # <<>> /\ s[Len(s)] = " " THEN Stripped(SubSeq(s, 1, Len(s) - 1))
  ELSE s

NormalForm(text) ==
  LET lower == toLowerCase(text)
      rest == IF Len(lower) >= 4 /\ SubSeq(lower, 1, 4) = <<"t", "h", "e", " ">>
                THEN SubSeq(lower, 5, Len(lower)) ELSE lower
      kept(c) == c \in LowerLetters \cup {"1", "_", " "}
  IN Stripped(SelectSeq(rest, kept))

\* s = before \o part \o after for some before and after
Contains(s, part) ==
  \E i \in 0..Len(s), j \in 0..Len(s) : i <= j /\ SubSeq(s, i + 1, j) = part

FuzzyCall == call.fn = "validateAnswer" /\ call.args[1] = "fuzzy"

\* C19: in fuzzy mode validateAnswer is true iff the normal forms of both
\* texts are non-empty and one contains the other; it is symmetric in its two
\* arguments; ('The Beatles','Beatles') and ('beatles!!','Beatles') are
\* correct and ('Led Zeppelin','Beatles') is not
C19_FuzzyContainment ==
  FuzzyCall =>
    LET user == call.args[2]
        correct == call.args[3]
        Beatles == <<"B", "e", "a", "t", "l", "e", "s">>
    IN /\ call.result <=>
            /\ NormalForm(user) # <<>>
            /\ NormalForm(correct) # <<>>
            /\ \/ Contains(NormalForm(user), NormalForm(correct))
               \/ Contains(NormalForm(correct), NormalForm(user))
       /\ call.result <=> validateAnswer("fuzzy", correct, user)
       /\ user = <<"T", "h", "e", " ">> \o Beatles /\ correct = Beatles => call.result
       /\ user = <<"b", "e", "a", "t", "l", "e", "s", "!", "!">> /\ correct = Beatles
            => call.result
       /\ user = <<"L", "e", "d", " ", "Z", "e", "p", "p", "e", "l", "i", "n">>
            /\ correct = Beatles => ~call.result

C19_Witness ==
  /\ FuzzyCall
  /\ call.args[2] = <<"T", "h", "e", " ", " ", "k">>
  /\ call.args[3] = <<"k", "k">>
  /\ call.result

\* C20: a call of validateAnswer changes no state, returns what the call
\* before it returned when answer, correct answer and answer mode are the
\* same, and returns false for an empty answer and for an answer of blanks
\* only, in every mode and for every correct answer
C20_PureAndEmptyIsWrong ==
  /\ [][call' # call =>
          /\ UNCHANGED <<relayVars, svcVars, gameVars, consumer, guestService, random, link, slotService, negotiation>>
          /\ (\A i \in 1..Len(call'.args[2]) : call'.args[2][i] = " ") => ~call'.result]_vars
  /\ [][call'.args = call.args => call'.result = call.result]_vars

C20_Witness ==
  /\ call.fn = "validateAnswer"
  /\ call.args = <<"multiple-choice", <<" ">>, <<" ">>>>
  /\ settings = Settings("fuzzy", DefaultTimeLimit)
  /\ ~call.result


(***************************************************************************)
(* Sending on data channels that are not open                              *)
(***************************************************************************)
\* the readyState of the host's data channel to guest g is 'open'
ChannelOpen(g) == session[g].dataChannel = "open"

\* C21: when the host calls sendGameMessage or sendToPlayer while a data
\* channel is not open, nothing is sent on a channel that is not open, a
\* broadcast still reaches every guest whose channel is open, and roster,
\* message log and peer sessions are unchanged
C21_SendSkipsClosedChannels ==
  [][svcOp'.type \in {"send", "sendToPlayer"} /\ (\E g \in Guests : ~ChannelOpen(g)) =>
       /\ UNCHANGED <<isHost, peerConnections, session, playersList, receivedMessages>>
       /\ \A g \in Guests : ~ChannelOpen(g) => g \notin svcOp'.to
       /\ svcOp'.type = "send" => \A g \in Guests : ChannelOpen(g) => g \in svcOp'.to]_vars


(***************************************************************************)
(* Frames the relay cannot parse                                           *)
(***************************************************************************)
\* C22: a frame that cannot be parsed is answered by exactly one error frame
\* 'Invalid message format', sent to the sender only; the room registry and
\* the client registry are unchanged, and so is everything the handlers of
\* later frames depend on: every connection, the sender's included, stays
\* open and registered as before
C22_MalformedIsSenderLocal ==
  [][lastEvent'.type = "malformed" =>
       /\ lastSent' = ErrorTo(lastEvent'.ws, "Invalid message format")
       /\ UNCHANGED <<rooms, clients, readyState, codesIssued, nOdd>>]_vars

\* the sender of the malformed frame shares a room with another open connection
C22_Witness ==
  /\ lastEvent.type = "malformed"
  /\ lastEvent.ws \in DOMAIN clients
  /\ \E c \in BroadcastTargets(rooms, clients[lastEvent.ws].roomCode, lastEvent.ws) :
       c \notin {f.to : f \in lastSent}
  /\ lastSent # {}

(***************************************************************************)
(* The slot-based peer connection service (webrtc.service.ts).  A host    *)
(* holds three slots, a guest one; the slots are indexed from 0 as in the *)
(* source.  The connectionState, the channel's readyState and the         *)
(* iceGatheringState of a slot's RTCPeerConnection are moved by the       *)
(* browser; the handlers the service installs react to them.              *)
(***************************************************************************)
HostSlots == 3

\* updateSlotStatus: the slot's status is overwritten, whatever it was
updateSlotStatus(slots, slotIndex, status) ==
  [slots EXCEPT ![slotIndex].status = status]

createHost ==
  slotService' = [slotService EXCEPT
    !.role = "host",
    !.slots = [i \in 0..(HostSlots - 1) |-> ConnectionSlot("waiting", "none", "none", "new")]]

createGuest ==
  slotService' = [slotService EXCEPT
    !.role = "guest",
    !.slots = [i \in {0} |-> ConnectionSlot("waiting", "none", "none", "new")]]

\* createOffer up to its last await: the status becomes connecting, a new
\* connection with a data channel replaces the slot's, the local description
\* starts the gathering.  gathered: iceGatheringState is already complete
\* when waitForIceGathering looks, and the offer is returned at once.
\* The host component awaits each createOffer before the next.
createOffer(slotIndex, gathered) ==
  /\ slotService.role = "host"
  /\ slotIndex \in DOMAIN slotService.slots
  /\ slotService.pending.result # "pending"
  /\ slotService' = [slotService EXCEPT
       !.slots = [updateSlotStatus(@, slotIndex, "connecting") EXCEPT
                    ![slotIndex].connection = "new",
                    ![slotIndex].dataChannel = "connecting",
                    ![slotIndex].gathering = IF gathered THEN "complete" ELSE "gathering"],
       !.pending = [op |-> "createOffer", slotIndex |-> slotIndex,
                    result |-> IF gathered THEN "returned" ELSE "pending"]]

\* waitForIceGathering after its first look: either the state change to
\* complete clears the timer and resolves, and createOffer returns the offer,
\* or the 5-second timer rejects with 'ICE gathering timeout', which
\* createOffer passes on to its caller without touching the slot
waitForIceGathering(slotIndex, outcome) ==
  /\ slotService.pending.result = "pending"
  /\ slotService.pending.slotIndex = slotIndex
  /\ \/ /\ outcome = "complete"
        /\ slotIndex \in DOMAIN slotService.slots
        /\ slotService.slots[slotIndex].gathering = "gathering"
        /\ slotService' = [slotService EXCEPT
             !.slots[slotIndex].gathering = "complete",
             !.pending.result = "returned"]
     \/ /\ outcome = "timeout"
        /\ slotService' = [slotService EXCEPT !.pending.result = "timeout"]

\* receiveAnswer: the remote description lets the connection start checking
receiveAnswer(slotIndex) ==
  /\ slotService.role = "host"
  /\ slotIndex \in DOMAIN slotService.slots
  /\ slotService.slots[slotIndex].connection = "new"
  /\ slotService.pending.result # "pending"
  /\ slotService' = [slotService EXCEPT !.slots[slotIndex].connection = "connecting"]

\* receiveOffer, followed by createAnswer as in the join component: the
\* status becomes connecting, a new connection replaces the one of slot 0
receiveOffer ==
  /\ slotService.role = "guest"
  /\ slotService' = [slotService EXCEPT
       !.slots = [updateSlotStatus(@, 0, "connecting") EXCEPT
                    ![0].connection = "connecting",
                    ![0].dataChannel = "none",
                    ![0].gathering = "gathering"]]

\* the guest's connection announces the host's channel
ondatachannel(slotIndex) ==
  /\ slotService.role = "guest"
  /\ slotIndex \in DOMAIN slotService.slots
  /\ slotService.slots[slotIndex].connection = "connected"
  /\ slotService.slots[slotIndex].dataChannel = "none"
  /\ slotService' = [slotService EXCEPT !.slots[slotIndex].dataChannel = "connecting"]

\* the handlers of setupDataChannel: onopen, onclose and onerror
setupDataChannel(slotIndex, event) ==
  /\ slotIndex \in DOMAIN slotService.slots
  /\ LET slot == slotService.slots[slotIndex] IN
     \/ /\ event = "open"
        /\ slot.dataChannel = "connecting"
        /\ slot.connection = "connected"
        /\ slotService' = [slotService EXCEPT
             !.slots = [updateSlotStatus(@, slotIndex, "connected") EXCEPT
                          ![slotIndex].dataChannel = "open"]]
     \/ /\ event = "close"
        /\ slot.dataChannel \in {"connecting", "open"}
        /\ slotService' = [slotService EXCEPT
             !.slots = [updateSlotStatus(@, slotIndex, "failed") EXCEPT
                          ![slotIndex].dataChannel = "closed"]]
     \/ /\ event = "error"
        /\ slot.dataChannel \in {"connecting", "open"}
        /\ slotService' = [slotService EXCEPT
             !.slots = updateSlotStatus(@, slotIndex, "failed")]

\* the connectionState changes the browser can report
ConnectionStateChanges ==
  {<<"connecting", "connected">>, <<"connecting", "failed">>,
   <<"connected", "disconnected">>, <<"disconnected", "connected">>,
   <<"disconnected", "failed">>}

\* onconnectionstatechange of setupConnectionHandlers: failed and
\* disconnected set the status to failed, every other state is only logged
setupConnectionHandlers(slotIndex, connectionState) ==
  /\ slotIndex \in DOMAIN slotService.slots
  /\ <<slotService.slots[slotIndex].connection, connectionState>> \in ConnectionStateChanges
  /\ slotService' = [slotService EXCEPT
       !.slots = [(IF connectionState \in {"failed", "disconnected"}
                     THEN updateSlotStatus(@, slotIndex, "failed") ELSE @)
                  EXCEPT ![slotIndex].connection = connectionState]]

\* reset: every channel and connection is closed, the slots are dropped
reset ==
  /\ slotService.role # "none"
  /\ slotService' = [slotService EXCEPT
       !.role = "none",
       !.slots = [i \in {} |-> ConnectionSlot("waiting", "none", "none", "new")]]

SlotNext ==
  \/ createHost /\ UNCHANGED <<relayVars, svcVars, gameVars, consumer, call, guestService, random, link, negotiation>>
  \/ createGuest /\ UNCHANGED <<relayVars, svcVars, gameVars, consumer, call, guestService, random, link, negotiation>>
  \/ \E i \in 0..(HostSlots - 1), gathered \in BOOLEAN : createOffer(i, gathered) /\ UNCHANGED <<relayVars, svcVars, gameVars, consumer, call, guestService, random, link, negotiation>>
  \/ \E i \in 0..(HostSlots - 1), outcome \in {"complete", "timeout"} : waitForIceGathering(i, outcome) /\ UNCHANGED <<relayVars, svcVars, gameVars, consumer, call, guestService, random, link, negotiation>>
  \/ \E i \in 0..(HostSlots - 1) : receiveAnswer(i) /\ UNCHANGED <<relayVars, svcVars, gameVars, consumer, call, guestService, random, link, negotiation>>
  \/ receiveOffer /\ UNCHANGED <<relayVars, svcVars, gameVars, consumer, call, guestService, random, link, negotiation>>
  \/ \E i \in 0..(HostSlots - 1) : ondatachannel(i) /\ UNCHANGED <<relayVars, svcVars, gameVars, consumer, call, guestService, random, link, negotiation>>
  \/ \E i \in 0..(HostSlots - 1), event \in {"open", "close", "error"} : setupDataChannel(i, event) /\ UNCHANGED <<relayVars, svcVars, gameVars, consumer, call, guestService, random, link, negotiation>>
  \/ \E i \in 0..(HostSlots - 1), connectionState \in {"connected", "disconnected", "failed"} : setupConnectionHandlers(i, connectionState) /\ UNCHANGED <<relayVars, svcVars, gameVars, consumer, call, guestService, random, link, negotiation>>
  \/ reset /\ UNCHANGED <<relayVars, svcVars, gameVars, consumer, call, guestService, random, link, negotiation>>

SpecSlots == Init /\ [][SlotNext]_vars

\* the status changes a slot may make
StatusChanges ==
  {<<"waiting", "connecting">>, <<"connecting", "connected">>,
   <<"connecting", "failed">>, <<"connected", "failed">>}

\* createHost and createGuest replace the slots by new ones
SlotsCreated ==
  \A i \in DOMAIN slotService'.slots :
    slotService'.slots[i] = ConnectionSlot("waiting", "none", "none", "new")

\* C23: the status of a slot changes only along waiting -> connecting,
\* connecting -> connected, connecting -> failed and connected -> failed
C23_SlotStatusLifecycle ==
  [][~SlotsCreated =>
       \A i \in DOMAIN slotService.slots \cap DOMAIN slotService'.slots :
         \/ slotService'.slots[i].status = slotService.slots[i].status
         \/ <<slotService.slots[i].status, slotService'.slots[i].status>> \in StatusChanges]_vars

\* the part of C23 about the handlers alone: no handler of a channel or of a
\* connection takes a failed slot to connected
HandlersKeepFailed ==
  [][\A i \in DOMAIN slotService.slots \cap DOMAIN slotService'.slots :
       ~(slotService.slots[i].status = "failed" /\ slotService'.slots[i].status = "connected")]_vars

\* C24: when the gathering for a slot's offer times out, createOffer fails
\* and the slot's status becomes failed; when the gathering completes first,
\* the offer is returned
C24_GatheringTimeoutFailsSlot ==
  [][/\ (slotService.pending.result = "pending" /\ slotService'.pending.result = "timeout") =>
          /\ slotService.pending.slotIndex \in DOMAIN slotService'.slots
          /\ slotService'.slots[slotService.pending.slotIndex].status = "failed"
     /\ (slotService.pending.result = "pending"
           /\ slotService.pending.slotIndex \in DOMAIN slotService'.slots
           /\ slotService.slots[slotService.pending.slotIndex].gathering = "gathering"
           /\ slotService'.slots[slotService.pending.slotIndex].gathering = "complete") =>
          slotService'.pending.result = "returned"]_vars

\* the second half of C24 and the error of the first: a completed gathering
\* returns the offer, a timeout makes createOffer fail
GatheringOutcomes ==
  [][slotService.pending.result = "pending" /\ slotService'.pending # slotService.pending =>
       \/ /\ slotService'.pending.result = "returned"
          /\ slotService'.slots[slotService.pending.slotIndex].gathering = "complete"
       \/ slotService'.pending.result = "timeout"]_vars

(***************************************************************************)
(* The question a guest looks up when a round starts                       *)
(***************************************************************************)
\* guest g takes a round-start off its channel and passes it to
\* handleRoundStart, from the waiting page through /game or on the game page
HandlesRoundStart(g) ==
  /\ toGuest[g] # <<>>
  /\ Head(toGuest[g]).type = "round-start"
  /\ toGuest'[g] = Tail(toGuest[g])
  /\ gameOp'.type = "round-start" /\ gameOp'.who = g
  /\ guestComp[g].page \in {"lobby", "game"}

\* C25: a guest that handles round-start holds the question set of game-start
\* and finds the question with the id of the message in it
C25_QuestionHeldAtRoundStart ==
  [][\A g \in Guests :
       HandlesRoundStart(g) =>
         /\ guestComp[g].hasData
         /\ findQuestion(Head(toGuest[g]).round + 1) # NoQuestion]_vars

\* the same for the round-start of round 0, which startGame sends right after
\* game-start on the channels that are open then
FirstRoundStartFindsQuestion ==
  [][\A g \in Guests :
       HandlesRoundStart(g) /\ Head(toGuest[g]).round = 0 =>
         /\ guestComp[g].hasData
         /\ findQuestion(Head(toGuest[g]).round + 1) # NoQuestion]_vars

(***************************************************************************)
(* The PlayerScore records of the host                                     *)
(***************************************************************************)
\* the sum of totalPoints over the first n records
RECURSIVE PointsIn(_, _)
PointsIn(roundScores, n) ==
  IF n = 0 THEN 0 ELSE PointsIn(roundScores, n - 1) + roundScores[n].totalPoints

\* the length of the run of correct records that ends with record n
RECURSIVE RunEndingAt(_, _)
RunEndingAt(roundScores, n) ==
  IF n = 0 \/ ~roundScores[n].correct THEN 0 ELSE RunEndingAt(roundScores, n - 1) + 1

\* the length of the longest run of correct records among the first n
RECURSIVE LongestRun(_, _)
LongestRun(roundScores, n) ==
  IF n = 0 THEN 0
  ELSE IF RunEndingAt(roundScores, n) > LongestRun(roundScores, n - 1)
         THEN RunEndingAt(roundScores, n) ELSE LongestRun(roundScores, n - 1)

\* the counters of a PlayerScore agree with its round records
CountersAgree(ps) ==
  LET rs == ps.roundScores IN
  /\ ps.totalScore = PointsIn(rs, Len(rs))
  /\ ps.correctAnswers = Cardinality({k \in 1..Len(rs) : rs[k].correct})
  /\ ps.currentStreak = RunEndingAt(rs, Len(rs))
  /\ ps.maxStreak = LongestRun(rs, Len(rs))
  /\ \A k \in 1..Len(rs) : ~rs[k].correct => rs[k].totalPoints = 0

\* the rounds resolved so far: the open round once its answers are scored,
\* and every round before it
Resolved(r) ==
  \/ RoundEndsFor(r) # {}
  \/ \E id \in DOMAIN scores : RoundScoresFor(id, r) # {}

ScoreCounters == \A id \in DOMAIN scores : CountersAgree(scores[id])

\* C26: on the host every PlayerScore's counters agree with its round
\* records, and it holds exactly one record for every resolved round
C26_ScoreRecordsConsistent ==
  \A id \in DOMAIN scores :
    /\ CountersAgree(scores[id])
    /\ \A r \in 0..(NumQuestions - 1) :
         Cardinality(RoundScoresFor(id, r)) = IF Resolved(r) THEN 1 ELSE 0

(***************************************************************************)
(* The answer a RoundScore record holds                                    *)
(***************************************************************************)
\* processAllAnswers has scored the n-th player of the results it stored
ScoredNow(n) ==
  /\ roundResults'[n].playerId \in DOMAIN scores \cap DOMAIN scores'
  /\ Len(scores'[roundResults'[n].playerId].roundScores)
       = Len(scores[roundResults'[n].playerId].roundScores) + 1

\* the answer of the record appended last to the n-th player's PlayerScore,
\* as the round-end results show an answer
RecordedAnswer(n) ==
  LET roundScores == scores'[roundResults'[n].playerId].roundScores
      answer == roundScores[Len(roundScores)].answer
  IN IF answer = <<>> THEN NoAnswerText ELSE answer

\* C29: the RoundScore appended for a player holds the answer the round-end
\* results report for that player
C29_RecordHoldsOwnAnswer ==
  [][roundResults' # roundResults =>
       \A n \in 1..Len(roundResults') :
         ScoredNow(n) => RecordedAnswer(n) = roundResults'[n].answer]_vars

\* the same for the host's own record
HostRecordHoldsOwnAnswer ==
  [][roundResults' # roundResults =>
       \A n \in 1..Len(roundResults') :
         ScoredNow(n) /\ roundResults'[n].playerId = "host" =>
           RecordedAnswer(n) = roundResults'[n].answer]_vars

(***************************************************************************)
(* Room membership and the client registry of the relay                    *)
(***************************************************************************)
\* the rooms whose member set holds the connection ws
RoomsOf(ws) == {code \in DOMAIN rooms : ws \in rooms[code]}

\* ws is in at most one room, and in exactly the room clients maps it to
MembershipMatchesRegistry ==
  \A ws \in Conns :
    /\ Cardinality(RoomsOf(ws)) <= 1
    /\ \A code \in Codes :
         code \in RoomsOf(ws) <=> (ws \in DOMAIN clients /\ clients[ws].roomCode = code)

\* create-room leaves every other room as it was
CreateKeepsOtherRooms ==
  lastEvent'.type = "create-room" /\ lastEvent' # lastEvent =>
    \A code \in DOMAIN rooms \ {lastEvent'.roomCode} :
      code \in DOMAIN rooms' /\ rooms'[code] = rooms[code]

\* C27: a connection is a member of at most one room, the one the client
\* registry maps it to, also after a create-room or join-room of a connection
\* that is already registered; create-room changes no other room
C27_OneRoomPerConnection ==
  []MembershipMatchesRegistry /\ [][CreateKeepsOtherRooms]_vars

\* create-room changes no other room, whoever sends it
CreateRoomIsLocal == [][CreateKeepsOtherRooms]_vars

(***************************************************************************)
(* A host and several guests negotiate in one room.  The relay copies an   *)
(* offer, an answer or a candidate to every other member of the room and   *)
(* tags it with the sender's role; origin names the guest whose            *)
(* negotiation a description or a candidate was produced for.              *)
(***************************************************************************)
Signal(type, from, origin) == [type |-> type, from |-> from, origin |-> origin]

\* the relay handles the signaling frame of ws, and every copy it sends is
\* queued at its receiver
Relayed(peers, ws, type, origin) ==
  /\ RelaySignal(ws, type)
  /\ negotiation' =
       [c \in Conns |->
          IF \E f \in lastSent' : f.to = c
            THEN [peers[c] EXCEPT !.inbox = Append(@, Signal(type, clients[ws].role, origin))]
            ELSE peers[c]]

\* a client connects to the relay
PeerConnects ==
  /\ Connect(NumNegotiating)
  /\ UNCHANGED <<rooms, clients, codesIssued, nOdd, negotiation>>

\* hostGame: the first client creates the room
PeerHostsGame(ws) ==
  /\ ws \notin DOMAIN clients
  /\ DOMAIN rooms = {}
  /\ CreateRoom(ws, 1)
  /\ negotiation' = [negotiation EXCEPT ![ws].role = "host"]

\* joinGame up to joinRoom: another client joins the room
PeerJoinsRoom(ws) ==
  /\ ws \notin DOMAIN clients
  /\ HasRoom(rooms, 1)
  /\ JoinRoom(ws, 1)
  /\ negotiation' = [negotiation EXCEPT ![ws].role = "guest"]

\* joinGame after joinRoom: createPeerConnection and createAndSendOffer
PeerOffers(ws) ==
  /\ negotiation[ws].role = "guest"
  /\ ~negotiation[ws].peerConnection
  /\ Relayed([negotiation EXCEPT ![ws].peerConnection = TRUE], ws, "offer", ws)

\* peerConnection.onicecandidate of a guest, and of the host's connection for
\* the guest origin: sendIceCandidate
PeerCandidate(ws, origin, maxCandidates) ==
  /\ negotiation[ws].candidates < maxCandidates
  /\ \/ negotiation[ws].role = "guest" /\ negotiation[ws].peerConnection /\ origin = ws
     \/ negotiation[ws].role = "host" /\ origin \in negotiation[ws].sessions
  /\ Relayed([negotiation EXCEPT ![ws].candidates = @ + 1], ws, "ice-candidate", origin)

\* handleSignalingMessage of the client ws for the next frame of the relay:
\* the host answers an offer (handleOfferFromGuest) and adds a candidate to a
\* session; a guest applies an answer (handleAnswer) and a candidate
\* (handleIceCandidate) to this.peerConnection if it is set
handleSignalingMessage(ws) ==
  /\ negotiation[ws].inbox # <<>>
  /\ LET message == Head(negotiation[ws].inbox)
         taken == [negotiation EXCEPT ![ws].inbox = Tail(@)]
         applies == [taken EXCEPT ![ws].applied = Append(@, message)]
     IN CASE message.type = "offer" /\ negotiation[ws].role = "host" ->
               Relayed([taken EXCEPT ![ws].sessions = @ \cup {message.origin}],
                       ws, "answer", message.origin)
          [] message.type = "answer" /\ negotiation[ws].role # "host"
               /\ negotiation[ws].peerConnection ->
               /\ negotiation' = applies
               /\ UNCHANGED relayVars
          [] message.type = "ice-candidate"
               /\ (negotiation[ws].role = "host" \/ negotiation[ws].peerConnection) ->
               /\ negotiation' = applies
               /\ UNCHANGED relayVars
          [] OTHER ->
               /\ negotiation' = taken
               /\ UNCHANGED relayVars

NegotiationNext ==
  \/ PeerConnects /\ UNCHANGED <<svcVars, gameVars, consumer, call, guestService, random, link, slotService>>
  \/ \E ws \in 1..NumNegotiating : PeerHostsGame(ws) /\ UNCHANGED <<svcVars, gameVars, consumer, call, guestService, random, link, slotService>>
  \/ \E ws \in 1..NumNegotiating : PeerJoinsRoom(ws) /\ UNCHANGED <<svcVars, gameVars, consumer, call, guestService, random, link, slotService>>
  \/ \E ws \in 1..NumNegotiating : PeerOffers(ws) /\ UNCHANGED <<svcVars, gameVars, consumer, call, guestService, random, link, slotService>>
  \/ \E ws, origin \in 1..NumNegotiating : PeerCandidate(ws, origin, MaxCandidates) /\ UNCHANGED <<svcVars, gameVars, consumer, call, guestService, random, link, slotService>>
  \/ \E ws \in 1..NumNegotiating : handleSignalingMessage(ws) /\ UNCHANGED <<svcVars, gameVars, consumer, call, guestService, random, link, slotService>>

SpecNegotiation == Init /\ [][NegotiationNext]_vars

\* the guests of the room
NegotiatingGuests == {ws \in Conns : negotiation[ws].role = "guest"}

\* what a guest has applied that belongs to another guest's negotiation
ForeignSignals(ws) ==
  {k \in 1..Len(negotiation[ws].applied) : negotiation[ws].applied[k].origin # ws}

\* C28: a guest applies only the answer and the candidates of its own
\* negotiation with the host
C28_SignalsReachOwnGuestOnly ==
  \A ws \in NegotiatingGuests : ForeignSignals(ws) = {}

\* every guest is handed the answer to its own offer: the host's answer for
\* the guest origin is queued at origin by the relay's step
OwnAnswerDelivered ==
  [][\A ws \in 1..NumNegotiating :
       lastEvent'.type = "answer" /\ lastEvent' # lastEvent
         /\ negotiation[ws].inbox # <<>> /\ Head(negotiation[ws].inbox).type = "offer"
         /\ negotiation'[ws].inbox = Tail(negotiation[ws].inbox) =>
           LET origin == Head(negotiation[ws].inbox).origin
           IN negotiation'[origin].inbox =
                Append(negotiation[origin].inbox, Signal("answer", "host", origin))]_vars

(***************************************************************************)
(* A guest that joins after the host has started the game.  Every handler, *)
(* timer and channel delivery that can run does run in the end.            *)
(***************************************************************************)
LateJoinNext ==
  \/ \E name \in HostNames : HostLobby(name) /\ UNCHANGED <<relayVars, fxVars>>
  \/ \E g \in GameGuests : GuestOffer(g) /\ UNCHANGED <<relayVars, fxVars>>
  \/ \E g \in GameGuests, name \in GameNames : ChannelOpens(g, name) /\ UNCHANGED <<relayVars, fxVars>>
  \/ \E st \in {Settings("exact", TimeLimit)} : StartGame(st) /\ UNCHANGED <<relayVars, fxVars>>
  \/ \E g \in GameGuests : HostReceives(g) /\ UNCHANGED <<relayVars, fxVars>>
  \/ \E text \in AnswerTexts : HostTypes(text) /\ UNCHANGED <<relayVars, fxVars>>
  \/ HostSubmits /\ UNCHANGED <<relayVars, fxVars>>
  \/ HostTick /\ UNCHANGED <<relayVars, fxVars>>
  \/ NextRoundTimeout /\ UNCHANGED <<relayVars, fxVars>>
  \/ \E g \in GameGuests : GuestReceives(g) /\ UNCHANGED <<relayVars, fxVars>>
  \/ \E g \in GameGuests, text \in AnswerTexts : GuestTypes(g, text) /\ UNCHANGED <<relayVars, fxVars>>
  \/ \E g \in GameGuests : GuestSubmits(g) /\ UNCHANGED <<relayVars, fxVars>>
  \/ \E g \in GameGuests : GuestTick(g) /\ UNCHANGED <<relayVars, fxVars>>

SpecLateJoin == Init /\ [][LateJoinNext]_vars /\ WF_vars(LateJoinNext)

\* the host is in round r, and every player that initializeScores gave a
\* PlayerScore has submitted or timed out: the host itself, and the guests
\* whose answer the host holds
ScoredPlayersDone(r) ==
  /\ page = "game"
  /\ comp.currentRound = r
  /\ comp.currentQuestion # NoQuestion
  /\ comp.hasSubmitted
  /\ \A id \in DOMAIN scores \ {"host"} : id \in DOMAIN pendingAnswers

\* round r is resolved: every scored player has its record for it
RoundResolved(r) == \A id \in DOMAIN scores : RoundScoresFor(id, r) # {}

\* C30: once the players that were in the roster when the scores were
\* initialised have submitted or timed out, the round is resolved in the end,
\* whoever has joined since
C30_LateJoinerDoesNotBlock ==
  \A r \in 0..(NumQuestions - 1) : ScoredPlayersDone(r) ~> RoundResolved(r)

=============================================================================
